---- MODULE Spec2Model ----
(***************************************************************************)
(* A model of the watch / dedupe / heartbeat / merge / catchup layer of    *)
(* rubintv_production:                                                     *)
(*   - FileWatcher and ButlerWatcher        (watchers.py)                  *)
(*   - Heartbeater and MetadataServer       (rubinTv.py)                   *)
(*   - RubinTvBackgroundService             (catchupService.py)            *)
(* Each component is an independent single-threaded process; they only     *)
(* meet through files.  Every component has its own specification          *)
(* (SpecFW, SpecBW, SpecMerge, SpecCatchup, SpecBG) in which the variables *)
(* of the other components are parked.                                     *)
(***************************************************************************)
EXTENDS Integers, Sequences, FiniteSets, TLC

VARIABLES
    \* ---- FileWatcher.run (watchers.py) ----
    markers,        \* exposure ids of the marker files matching the glob pattern
    fwPc,           \* position of FileWatcher.run: "off", "poll", "callback", "crashed"
    lastFound,      \* local lastFound of FileWatcher.run (None or an exposure id)
    doRaise,        \* FileWatcher.doRaise
    heartbeater,    \* FileWatcher.heartbeater: None or the Heartbeater's state
    now,            \* time.time() of the watcher process, in seconds
    calls,          \* history: the callback invocations, [unit, result]
    lastStep,       \* history: what the last step of the run loop did
    lastBeat,       \* history: what the last step of the run loop did to the heartbeat
    removed,        \* history: has a marker file ever been removed from the directory
    skipped,        \* history: markers a cycle passed over for a more recent one
    \* ---- ButlerWatcher.run (watchers.py) ----
    registry,       \* butler registry: per data product, the exposures that have it
    dataIdFiles,    \* marker files in dataIdScanPath: per data product, exposure ids
    shardedData,    \* files in calculatedDataPath, as [dataset, day_obs, seq_num]
    bwPc,           \* position of ButlerWatcher.run: "off", "start", "loop", "write", "crashed"
    bwDoRaise,      \* ButlerWatcher.doRaise
    lastWrittenIds, \* local lastWrittenIds of ButlerWatcher.run
    found,          \* local found of ButlerWatcher.run: product -> its new record
    coldStart,      \* history: what run() read from the marker files when it started
    bwCycles,       \* history: number of poll cycles completed by ButlerWatcher.run
    bwLast,         \* history: what the last poll cycle did
    \* ---- MetadataServer.mergeShardsAndUpload (rubinTv.py) ----
    shardsDir,      \* the shard files in shardsDir (their names)
    mainFiles,      \* the sidecar files: per dayObs, None or the json content
    bucket,         \* the uploaded sidecar files: per dayObs, None or the content
    mPc,            \* per merger, its position in mergeShardsAndUpload
    shardFiles,     \* per merger, local shardFiles: the sorted names still to do
    data,           \* per merger, local data
    filesTouched,   \* per merger, local filesTouched (dayObs of the main files)
    written,        \* history: the shards ever written to shardsDir
    mRemoved,       \* history: per merger, the shards its current pass removed
    active,         \* history: the mergers that ever started a pass
    faulted,        \* history: has a pass ever been cut short (exception or kill)
    writable,       \* the shard files that writers may create
    listed,         \* history: per merger, the shard files its last pass listed
    late,           \* history: per merger, the shards written since its last listing
    uploadLog,      \* history: per merger, the googleUpload calls of its last pass
    lastPass,       \* history: per merger, how its last pass ended
    \* ---- RubinTvBackgroundService (catchupService.py) ----
    bgPc,           \* position of the service in run / runCatchup / runEndOfDay
    bgDoRaise,      \* RubinTvBackgroundService.doRaise
    dayObs,         \* RubinTvBackgroundService.dayObs, the tracked day
    currentDayObs,  \* getCurrentDayObs_int(), the external current day
    bgNow,          \* time.time() of the service, in seconds
    lastRun,        \* local lastRun of run
    bgHeartbeater,  \* RubinTvBackgroundService.heartbeater
    seqNums,        \* butler: per day, the sequence numbers that exist upstream
    quickLooks,     \* butler: per day, the sequence numbers that have a quickLookExp
    sidecar,        \* metadata sidecar file: per day, None or its sequence numbers
    mdShards,       \* metadata shards written by catchupMetadata: [day_obs, seq_num]
    missing,        \* local list of the routine that runs: what is left to produce
    atEnum,         \* history: the store and the upstream when the routine enumerated gaps
    ran,            \* history: the routines of this pass that were called, in order
    raisedIn,       \* history: the routines of this pass that raised
    remade,         \* history: the channels remakeDay was called for in this pass
    prodLog,        \* history: the production calls of this pass
    finalized,      \* history: the days runEndOfDay was entered for, in order
    lastEod,        \* history: how the last runEndOfDay ended
    bgPasses,       \* history: the number of catchup passes run has started
    \* ---- the merge of one shard into one canonical record (rubinTv.py) ----
    canonical,      \* the canonical record (data)
    shardIn,        \* history: the shard merged last
    before,         \* history: the canonical record before that merge
    \* ---- Heartbeater (rubinTv.py), driven by any caller ----
    beater,         \* the Heartbeater: uploadPeriod, flatlinePeriod, lastUpload, last record in the bucket
    hbNow,          \* time.time() of the caller's process, in seconds
    beats,          \* history: the beat() calls made, with what each did
    \* ---- Uploader (rubinTv.py) ----
    upPc,           \* where the Uploader's current call is: idle, blob, upload
    upCur,          \* the current call: method, channel, blob name, isLiveFile, attempts
    upBlobs,        \* the blobs created with self.bucket.blob(name), with their cache_control
    upObjects,      \* the names of the objects uploaded to the bucket
    upLog,          \* history: the calls that returned or raised, with what each did
    \* ---- the heartbeats RubinTvBackgroundService.run asks for ----
    requested,      \* history: the beat() calls of the last step of run that made any, [t, custom]
    \* ---- _waitForDataProduct (rubinTv.py) ----
    wPc,            \* position of _waitForDataProduct: "idle", "loop", "sleep", "returned"
    wMaxTime,       \* argument maxTime, in eighths of a second
    wRetry,         \* loop variable retry
    wExists,        \* is the dataset in the repository
    wResult,        \* the return value: "pending", "product" or "None"
    wSeen,          \* history: what datasetExists returned at each poll of the call
    wSlept,         \* history: the time slept in the call, in eighths of a second
    wWarned,        \* history: the warning of the timeout was logged
    \* ---- utils.isDayObsContiguous ----
    dyA,            \* argument dayObs of the last call of isDayObsContiguous
    dyB,            \* argument otherDayObs of the last call
    dyResult,       \* what the last call returned
    \* ---- the end of the last catchup pass of RubinTvBackgroundService.run ----
    passEnd,        \* history: the time runCatchup last returned to run, at first the time run started
    \* ---- RubinTvBackgroundService._makeMinimalDataId ----
    mnDataId,       \* argument dataId of the last call of _makeMinimalDataId
    mnResult,       \* what the last call returned or raised
    \* ---- Uploads of the metadata channel ----
    mdUploads,      \* who has uploaded a sidecar file to the metadata channel
    \* ---- History of a merge pass ----
    mainAtList      \* history: per merger, the main files when its pass listed the shards

fwVars == <<markers, fwPc, lastFound, doRaise, heartbeater, now, calls,
            lastStep, lastBeat, removed, skipped>>

bwVars == <<registry, dataIdFiles, shardedData, bwPc, bwDoRaise, lastWrittenIds,
            found, coldStart, bwCycles, bwLast>>

mgVars == <<shardsDir, mainFiles, bucket, mPc, shardFiles, data, filesTouched,
            written, mRemoved, active, faulted, writable, listed, late,
            uploadLog, lastPass>>

bgVars == <<bgPc, bgDoRaise, dayObs, currentDayObs, bgNow, lastRun, bgHeartbeater,
            seqNums, quickLooks, sidecar, mdShards, missing, atEnum, ran,
            raisedIn, remade, prodLog, finalized, lastEod, bgPasses>>

dcVars == <<canonical, shardIn, before>>

hbVars == <<beater, hbNow, beats>>

upVars == <<upPc, upCur, upBlobs, upObjects, upLog>>

rqVars == <<requested>>

wtVars == <<wPc, wMaxTime, wRetry, wExists, wResult, wSeen, wSlept, wWarned>>

dyVars == <<dyA, dyB, dyResult>>

peVars == <<passEnd>>

mnVars == <<mnDataId, mnResult>>

muVars == <<mdUploads>>

mlVars == <<mainAtList>>

vars == <<fwVars, bwVars, mgVars, bgVars, dcVars, hbVars, upVars, rqVars, wtVars, dyVars, peVars, mnVars, muVars, mlVars>>

\* the variables a component leaves alone: those of the other components
notFW == <<bwVars, mgVars, bgVars, dcVars, hbVars, upVars, rqVars, wtVars, dyVars, peVars, mnVars, muVars, mlVars>>
notBW == <<fwVars, mgVars, bgVars, dcVars, hbVars, upVars, rqVars, wtVars, dyVars, peVars, mnVars, muVars, mlVars>>
notMG == <<fwVars, bwVars, bgVars, dcVars, hbVars, upVars, rqVars, wtVars, dyVars, peVars, mnVars, muVars, mlVars>>
notBG == <<fwVars, bwVars, mgVars, dcVars, hbVars, upVars, rqVars, wtVars, dyVars, peVars, mnVars, muVars, mlVars>>
notDC == <<fwVars, bwVars, mgVars, bgVars, hbVars, upVars, rqVars, wtVars, dyVars, peVars, mnVars, muVars, mlVars>>
notHB == <<fwVars, bwVars, mgVars, bgVars, dcVars, upVars, rqVars, wtVars, dyVars, peVars, mnVars, muVars, mlVars>>
notUP == <<fwVars, bwVars, mgVars, bgVars, dcVars, hbVars, rqVars, wtVars, dyVars, peVars, mnVars, muVars, mlVars>>
\* what no step of run touches
notRun == <<fwVars, bwVars, mgVars, dcVars, hbVars, upVars, wtVars, dyVars, mnVars, muVars, mlVars>>
notRQ == <<fwVars, bwVars, mgVars, bgVars, dcVars, hbVars, upVars, wtVars, dyVars, peVars, mnVars, muVars, mlVars>>
notWT == <<fwVars, bwVars, mgVars, bgVars, dcVars, hbVars, upVars, rqVars, dyVars, peVars, mnVars, muVars, mlVars>>
notDY == <<fwVars, bwVars, mgVars, bgVars, dcVars, hbVars, upVars, rqVars, wtVars, peVars, mnVars, muVars, mlVars>>
notPE == <<fwVars, bwVars, mgVars, bgVars, dcVars, hbVars, upVars, rqVars, wtVars, dyVars, mnVars, muVars, mlVars>>
notMN == <<fwVars, bwVars, mgVars, bgVars, dcVars, hbVars, upVars, rqVars, wtVars, dyVars, peVars, muVars, mlVars>>
notMU == <<fwVars, bwVars, mgVars, bgVars, dcVars, hbVars, upVars, rqVars, wtVars, dyVars, peVars, mnVars, mlVars>>
notML == <<fwVars, bwVars, mgVars, bgVars, dcVars, hbVars, upVars, rqVars, wtVars, dyVars, peVars, mnVars, muVars>>
\* what the live metadata path leaves alone
notLive == <<fwVars, bwVars, mgVars, dcVars, hbVars, upVars, rqVars, wtVars, dyVars, peVars, mnVars, mlVars>>
\* what the listing of the shards by a merge pass leaves alone
notList == <<fwVars, bwVars, bgVars, dcVars, hbVars, upVars, rqVars, wtVars, dyVars, peVars, mnVars, muVars>>

\* Python's None, and a value that is not None: an optional value is a
\* sequence of length 0 or 1
None == <<>>
Some(x) == <<x>>
Get(o) == o[1]

-----------------------------------------------------------------------------
(* Bounds of the model.                                                    *)

\* the marker directory holds exposure ids MaxExpId - 2 .. MaxExpId
MaxExpId == 10
\* the largest number of callback invocations recorded in calls
MaxCalls == 3
\* the watcher's clock starts at StartTime and stops at StartTime + MaxElapsed
StartTime == 100
MaxElapsed == 2

\* the butler registry holds exposures 1 .. NumExposures
NumExposures == 2
\* the largest number of ButlerWatcher poll cycles counted in bwCycles
MaxCycles == 3
\* the shard files that writers may create are shards 1 .. NumShards
NumShards == 2
\* with a single merger writers may create shards 1 .. NumShardsOne
NumShardsOne == 4
\* a caller of Heartbeater.beat makes at most MaxBeats calls
MaxBeats == 3
\* the caller's clock starts at StartTime and stops at StartTime + MaxHbElapsed
MaxHbElapsed == 30
\* the callers of an Uploader make at most MaxUploads calls
MaxUploads == 3
\* the retry strategy of an upload gives up after MaxAttempts attempts
MaxAttempts == 2
\* a day has sequence numbers 1 .. MaxSeqNum
MaxSeqNum == 2
\* the external day advances at most MaxRollovers times
MaxRollovers == 2
\* the first day the background service tracks
FirstDayObs == 20221027
\* run starts at most MaxPasses catchup passes
MaxPasses == 3
\* the background service's clock stops MaxBgElapsed seconds after StartTime
MaxBgElapsed == 5200
\* _waitForDataProduct is called with maxTime of 0 .. MaxWaitTime eighths of
\* a second
MaxWaitTime == 9
\* isDayObsContiguous is called with the days from 20220928 to
\* 20221001 + DayObsSpan, and with days around a new year and a leap day
DayObsSpan == 4
\* the fields of a dataId have the values 1 .. MaxFieldValue
MaxFieldValue == 2

ExpIds == (MaxExpId - 2)..MaxExpId

-----------------------------------------------------------------------------
(* Program constants.                                                      *)

\* FileWatcher.cadence
cadence == 1
\* FileWatcher.HEARTBEAT_UPLOAD_PERIOD
HEARTBEAT_UPLOAD_PERIOD == 30
\* FileWatcher.HEARTBEAT_FLATLINE_PERIOD
HEARTBEAT_FLATLINE_PERIOD == 120
\* RubinTvBackgroundService.catchupPeriod
catchupPeriod == 300
\* RubinTvBackgroundService.loopSleep
loopSleep == 30
\* RubinTvBackgroundService.endOfDayDelay
endOfDayDelay == 600
\* RubinTvBackgroundService.allSkyDeletionExtraSleep
allSkyDeletionExtraSleep == 1800
\* RubinTvBackgroundService.HEARTBEAT_UPLOAD_PERIOD
BG_HEARTBEAT_UPLOAD_PERIOD == 30
\* RubinTvBackgroundService.HEARTBEAT_FLATLINE_PERIOD
BG_HEARTBEAT_FLATLINE_PERIOD == 600
\* the sleep(5) of catchupIsrRunner
isrSleep == 5

-----------------------------------------------------------------------------
(* Marker file names.  A marker file is <dataProduct>_<instrument>_<expId> *)
(* .json; within one glob pattern the names differ only in the decimal     *)
(* digits of the exposure id, so sorted() orders them as digit strings.    *)

RECURSIVE Digits(_)
Digits(n) == IF n < 10 THEN <<n>> ELSE Append(Digits(n \div 10), n % 10)

\* s < t for two digit strings, as Python compares the two file names:
\* the digit after a common prefix decides, and "." sorts before any digit
StrLess(s, t) ==
    \/ /\ Len(s) < Len(t)
       /\ \A i \in 1..Len(s) : s[i] = t[i]
    \/ \E k \in 1..Len(s) :
          /\ k <= Len(t)
          /\ \A i \in 1..(k - 1) : s[i] = t[i]
          /\ s[k] < t[k]

\* int(filename.split("_")[-1].removesuffix(".json")) of the digit string
RECURSIVE ParseInt(_)
ParseInt(s) == IF Len(s) = 0 THEN 0
               ELSE 10 * ParseInt(SubSeq(s, 1, Len(s) - 1)) + s[Len(s)]

\* files[0] of sorted(files, reverse=True), for a non-empty set of markers
MostRecentFile(files) ==
    CHOOSE f \in {Digits(m) : m \in files} :
        \A g \in {Digits(m) : m \in files} : g = f \/ StrLess(g, f)

-----------------------------------------------------------------------------
(* Heartbeater (rubinTv.py).                                               *)

\* Heartbeater.__init__
HeartbeaterInit(uploadPeriod, flatlinePeriod) ==
    [uploadPeriod |-> uploadPeriod, flatlinePeriod |-> flatlinePeriod,
     lastUpload |-> -1, uploaded |-> None]

\* the record Uploader.uploadHeartbeat writes to the bucket
HeartbeatRecord(t, flatlinePeriod) ==
    [currTime |-> t, nextExpected |-> t + flatlinePeriod]

\* "not customFlatlinePeriod": None and 0 are both falsy
IsSet(customFlatlinePeriod) ==
    customFlatlinePeriod # None /\ Get(customFlatlinePeriod) # 0

\* a beat that uploads on every call
BeatUploadsAlways(hb, t, ensure, customFlatlinePeriod) == TRUE

\* does Heartbeater.beat attempt an upload at time t
BeatUploads(hb, t, ensure, customFlatlinePeriod) ==
    \/ t - hb.lastUpload >= hb.uploadPeriod
    \/ ensure
    \/ IsSet(customFlatlinePeriod)

\* a beat that resets lastUpload whatever uploadHeartbeat returned
BeatResetsOnFailure(hb, t, ensure, customFlatlinePeriod, ok) ==
    LET forecast == IF ~IsSet(customFlatlinePeriod) THEN hb.flatlinePeriod
                    ELSE Get(customFlatlinePeriod)
    IN IF BeatUploads(hb, t, ensure, customFlatlinePeriod)
       THEN [hb EXCEPT !.lastUpload = t,
                       !.uploaded = IF ok THEN Some(HeartbeatRecord(t, forecast))
                                    ELSE hb.uploaded]
       ELSE hb

\* Heartbeater.beat at time t; ok is the outcome of Uploader.uploadHeartbeat
Beat(hb, t, ensure, customFlatlinePeriod, ok) ==
    LET forecast == IF ~IsSet(customFlatlinePeriod) THEN hb.flatlinePeriod
                    ELSE Get(customFlatlinePeriod)
    IN IF BeatUploads(hb, t, ensure, customFlatlinePeriod) /\ ok
       THEN [hb EXCEPT !.lastUpload = t,
                       !.uploaded = Some(HeartbeatRecord(t, forecast))]
       ELSE hb

\* what a beat() call did: "suppressed", "failed" or "uploaded"
BeatOutcome(hb, t, ensure, customFlatlinePeriod, ok) ==
    IF ~BeatUploads(hb, t, ensure, customFlatlinePeriod) THEN "suppressed"
    ELSE IF ok THEN "uploaded" ELSE "failed"

-----------------------------------------------------------------------------
(* FileWatcher (watchers.py).                                              *)

\* getMostRecentExpRecord without the comparison with the previous id
getMostRecentExpRecordNoCompare(files, previousExpId) ==
    IF files = {} THEN None
    ELSE Some(ParseInt(MostRecentFile(files)))

\* getMostRecentExpRecord taking files[-1] of the files other than the
\* previous one, that is working through the directory oldest first
getMostRecentExpRecordOldestFirst(files, previousExpId) ==
    LET others == {m \in files : Some(m) # previousExpId}
    IN IF others = {} THEN None
       ELSE Some(ParseInt(CHOOSE f \in {Digits(m) : m \in others} :
                    \A g \in {Digits(m) : m \in others} : g = f \/ StrLess(f, g)))

\* FileWatcher.getMostRecentExpRecord up to the comparison with the previous
\* id: None when there is no file or the most recent one is previousExpId,
\* else the exposure id parsed from the most recent file name
getMostRecentExpRecord(files, previousExpId) ==
    IF files = {} THEN None
    ELSE LET expId == ParseInt(MostRecentFile(files))
         IN IF Some(expId) = previousExpId THEN None ELSE Some(expId)

\* "if self.heartbeater is not None: self.heartbeater.beat()"
FWBeat(ok) ==
    IF heartbeater = None
    THEN /\ heartbeater' = heartbeater
         /\ lastBeat' = "none"
    ELSE /\ heartbeater' = Some(Beat(Get(heartbeater), now, FALSE, None, ok))
         /\ lastBeat' = BeatOutcome(Get(heartbeater), now, FALSE, None, ok)

\* an except clause that re-raises whatever doRaise says
FWExceptAlwaysRaises ==
    fwPc' = "crashed"

\* the except clause of FileWatcher.run: raiseIf(self.doRaise, e, self.log)
FWExcept ==
    fwPc' = IF doRaise THEN "crashed" ELSE "poll"

\* a cycle that finds nothing, or the same exposure again: heartbeat, sleep
FWIdle ==
    /\ fwPc = "poll"
    /\ getMostRecentExpRecord(markers, lastFound) = None
    /\ now + cadence <= StartTime + MaxElapsed
    /\ \E ok \in BOOLEAN : FWBeat(ok)
    /\ now' = now + cadence
    /\ lastStep' = IF markers = {} THEN "idleEmpty" ELSE "idleSame"
    /\ UNCHANGED <<markers, fwPc, lastFound, doRaise, calls, removed, skipped>>
    /\ UNCHANGED notFW

\* history: the markers in the directory that a cycle handing unit to the
\* callback passes over, and that were not given to the callback before
PassedOver(unit) ==
    {m \in markers : m # unit /\ \A k \in 1..Len(calls) : calls[k].unit # m}

\* FWFound without "lastFound = expRecord.id"
FWFoundForgets ==
    /\ fwPc = "poll"
    /\ getMostRecentExpRecord(markers, lastFound) # None
    /\ Len(calls) < MaxCalls
    /\ calls' = Append(calls, [unit |-> Get(getMostRecentExpRecord(markers, lastFound)),
                               result |-> "running"])
    /\ skipped' = skipped \cup
                    PassedOver(Get(getMostRecentExpRecord(markers, lastFound)))
    /\ fwPc' = "callback"
    /\ lastStep' = "found"
    /\ lastBeat' = "none"
    /\ UNCHANGED <<markers, lastFound, doRaise, heartbeater, now, removed>>
    /\ UNCHANGED notFW

\* FWFound with the heartbeat sent before the callback is called
FWFoundBeatsFirst ==
    /\ fwPc = "poll"
    /\ getMostRecentExpRecord(markers, lastFound) # None
    /\ Len(calls) < MaxCalls
    /\ lastFound' = getMostRecentExpRecord(markers, lastFound)
    /\ calls' = Append(calls, [unit |-> Get(lastFound'), result |-> "running"])
    /\ \E ok \in BOOLEAN : FWBeat(ok)
    /\ skipped' = skipped \cup PassedOver(Get(lastFound'))
    /\ fwPc' = "callback"
    /\ lastStep' = "found"
    /\ UNCHANGED <<markers, doRaise, now, removed>>
    /\ UNCHANGED notFW

\* a cycle that finds a new exposure: remember it, then call the callback
FWFound ==
    /\ fwPc = "poll"
    /\ getMostRecentExpRecord(markers, lastFound) # None
    /\ Len(calls) < MaxCalls
    /\ lastFound' = getMostRecentExpRecord(markers, lastFound)
    /\ calls' = Append(calls, [unit |-> Get(lastFound'), result |-> "running"])
    /\ skipped' = skipped \cup PassedOver(Get(lastFound'))
    /\ fwPc' = "callback"
    /\ lastStep' = "found"
    /\ lastBeat' = "none"
    /\ UNCHANGED <<markers, doRaise, heartbeater, now, removed>>
    /\ UNCHANGED notFW

\* a cycle in which reading the most recent marker raises (safeJsonOpen,
\* DimensionRecord.from_json): lastFound is not assigned
FWPollRaises ==
    /\ fwPc = "poll"
    /\ getMostRecentExpRecord(markers, lastFound) # None
    /\ FWExcept
    /\ lastStep' = "pollRaised"
    /\ lastBeat' = "none"
    /\ UNCHANGED <<markers, lastFound, doRaise, heartbeater, now, calls, removed, skipped>>
    /\ UNCHANGED notFW

\* the callback returns after d seconds; the heartbeat follows it
FWCallbackReturns ==
    /\ fwPc = "callback"
    /\ \E d \in {0, HEARTBEAT_UPLOAD_PERIOD} :
          /\ now + d <= StartTime + MaxElapsed + HEARTBEAT_UPLOAD_PERIOD
          /\ now' = now + d
    /\ \E ok \in BOOLEAN :
          IF heartbeater = None
          THEN /\ heartbeater' = heartbeater
               /\ lastBeat' = "none"
          ELSE /\ heartbeater' = Some(Beat(Get(heartbeater), now', FALSE, None, ok))
               /\ lastBeat' = BeatOutcome(Get(heartbeater), now', FALSE, None, ok)
    /\ calls' = [calls EXCEPT ![Len(calls)].result = "returned"]
    /\ fwPc' = "poll"
    /\ lastStep' = "returned"
    /\ UNCHANGED <<markers, lastFound, doRaise, removed, skipped>>
    /\ UNCHANGED notFW

\* the callback raises: no heartbeat, the except clause decides
FWCallbackRaises ==
    /\ fwPc = "callback"
    /\ FWExcept
    /\ calls' = [calls EXCEPT ![Len(calls)].result = "raised"]
    /\ lastStep' = "raised"
    /\ lastBeat' = "none"
    /\ UNCHANGED <<markers, lastFound, doRaise, heartbeater, now, removed, skipped>>
    /\ UNCHANGED notFW

\* ButlerWatcher writes the marker of a newly found exposure
FWWriteMarker ==
    /\ \E m \in ExpIds : markers' = markers \cup {m}
    /\ markers' # markers
    /\ UNCHANGED <<fwPc, lastFound, doRaise, heartbeater, now, calls,
                   lastStep, lastBeat, removed, skipped>>
    /\ UNCHANGED notFW

\* a marker file is removed from the scan directory
FWRemoveMarker ==
    /\ \E m \in markers : markers' = markers \ {m}
    /\ removed' = TRUE
    /\ UNCHANGED <<fwPc, lastFound, doRaise, heartbeater, now, calls,
                   lastStep, lastBeat, skipped>>
    /\ UNCHANGED notFW

\* FileWatcher.__init__ and the entry of run: lastFound = None
InitFW ==
    /\ markers \in SUBSET ExpIds
    /\ fwPc = "poll"
    /\ lastFound = None
    /\ doRaise \in BOOLEAN
    /\ heartbeater \in {None, Some(HeartbeaterInit(HEARTBEAT_UPLOAD_PERIOD,
                                                   HEARTBEAT_FLATLINE_PERIOD))}
    /\ now = StartTime
    /\ calls = <<>>
    /\ lastStep = "init"
    /\ lastBeat = "none"
    /\ removed = FALSE
    /\ skipped = {}

\* a FileWatcher with doRaise = False is started
InitFWLive ==
    /\ InitFW
    /\ ~doRaise

\* the run loop beside a ButlerWatcher that only adds marker files
NextFWLive ==
    \/ FWIdle
    \/ FWFound
    \/ FWPollRaises
    \/ FWCallbackReturns
    \/ FWCallbackRaises
    \/ FWWriteMarker

NextFW ==
    \/ FWIdle
    \/ FWFound
    \/ FWPollRaises
    \/ FWCallbackReturns
    \/ FWCallbackRaises
    \/ FWWriteMarker
    \/ FWRemoveMarker

-----------------------------------------------------------------------------
(* ButlerWatcher (watchers.py).                                            *)

\* dataProducts of scripts/summit/auxTel/runButlerWatcher.py
dataProducts == {"raw", "quickLookExp"}

\* the datasets whose sharded files _deleteExistingData removes
ALLOWED_DATASET_TYPES == {"binnedImage"}

\* The exposure records of the registry.  Exposure i ends at time i; the
\* exposure ids run against time (a later exposure has a smaller id), as
\* ids of different controllers do.  Each exposure is of a day of its own:
\* exposure 1 is the ninth of its day, the later ones are the first or the
\* second of theirs, so that the sequence numbers do not follow time either.
ExpRecord(i) ==
    [id |-> MaxExpId + 1 - i, day_obs |-> i,
     seq_num |-> IF i = 1 THEN 9 ELSE (i % 2) + 1, timespanEnd |-> i]

Exposures == {ExpRecord(i) : i \in 1..NumExposures}

\* the record stored in the marker file of exposure id n
RecordOfId(n) == CHOOSE r \in Exposures : r.id = n

\* Python values of two types: an exposure id and a DimensionRecord
IntVal(n) == [type |-> "int", v |-> n]
RecVal(r) == [type |-> "DimensionRecord", v |-> r.id]

\* a != b of Python: an int and a DimensionRecord are never equal
PyNotEqual(a, b) ==
    \/ a = None
    \/ b = None
    \/ Get(a).type # Get(b).type
    \/ Get(a).v # Get(b).v

\* an ordering of the records by exposure id, largest first
RECURSIVE OrderByIdDesc(_)
OrderByIdDesc(S) ==
    IF S = {} THEN <<>>
    ELSE LET first == CHOOSE r \in S : \A q \in S : q.id <= r.id
         IN <<first>> \o OrderByIdDesc(S \ {first})

\* records.order_by('-exposure.timespan.end'): latest end first
RECURSIVE OrderByTimespanEndDesc(_)
OrderByTimespanEndDesc(S) ==
    IF S = {} THEN <<>>
    ELSE LET first == CHOOSE r \in S :
                         \A q \in S : q.timespanEnd <= r.timespanEnd
         IN <<first>> \o OrderByTimespanEndDesc(S \ {first})

\* records.limit(n)
Limit(records, n) ==
    SubSeq(records, 1, IF Len(records) < n THEN Len(records) ELSE n)

\* ButlerWatcher._getLatestExpRecords for one product: the query for the
\* exposures with a dataset of the product, ordered and limited to one
\* record; None unless the list has exactly one record
getLatestExpRecord(product) ==
    LET records == Limit(OrderByTimespanEndDesc(registry[product]), 1)
    IN IF Len(records) # 1 THEN None ELSE Some(records[1])

\* "found" of ButlerWatcher.run: the products whose latest record is new
Found ==
    {product \in dataProducts :
        /\ getLatestExpRecord(product) # None
        /\ PyNotEqual(Some(IntVal(Get(getLatestExpRecord(product)).id)),
                      lastWrittenIds[product])}

\* a purge that removes the files of every exposure
deleteExistingDataOfAllExposures(files, expRecord) ==
    {f \in files : f.dataset \notin ALLOWED_DATASET_TYPES}

\* ButlerWatcher._deleteExistingData: the files left in calculatedDataPath
deleteExistingData(files, expRecord) ==
    {f \in files : ~(/\ f.dataset \in ALLOWED_DATASET_TYPES
                     /\ f.day_obs = expRecord.day_obs
                     /\ f.seq_num = expRecord.seq_num)}

\* the value run() keeps for what the cold-start scan read from disk
ColdStartValue(expRecord) ==
    IF expRecord = None THEN None ELSE Some(RecVal(RecordOfId(Get(expRecord))))

\* the start of ButlerWatcher.run: lastWrittenIds from the files on disk
BWStart ==
    /\ bwPc = "start"
    /\ lastWrittenIds' = [product \in dataProducts |->
          ColdStartValue(getMostRecentExpRecord(dataIdFiles[product], None))]
    /\ coldStart' = [product \in dataProducts |->
          getMostRecentExpRecord(dataIdFiles[product], None)]
    /\ bwPc' = "loop"
    /\ UNCHANGED <<registry, dataIdFiles, shardedData, bwDoRaise, found,
                   bwCycles, bwLast>>
    /\ UNCHANGED notBW

\* a poll cycle that finds nothing new: sleep
BWNothingNew ==
    /\ bwPc = "loop"
    /\ bwCycles < MaxCycles
    /\ Found = {}
    /\ bwCycles' = bwCycles + 1
    /\ bwLast' = [found |-> {}, purged |-> None, written |-> {}, removed |-> {}]
    /\ UNCHANGED <<registry, dataIdFiles, shardedData, bwPc, bwDoRaise,
                   lastWrittenIds, found, coldStart>>
    /\ UNCHANGED notBW

\* the files of calculatedDataPath that _deleteExistingData removes
PurgeTargets(files, expRecord) ==
    files \ deleteExistingData(files, expRecord)

\* a poll cycle that goes on to write the markers without the purge
BWFoundWithoutPurge ==
    /\ bwPc = "loop"
    /\ bwCycles < MaxCycles
    /\ Found # {}
    /\ found' = [product \in Found |-> Get(getLatestExpRecord(product))]
    /\ bwLast' = [found |-> Found, purged |-> None, written |-> {}, removed |-> {}]
    /\ bwPc' = "write"
    /\ UNCHANGED <<registry, dataIdFiles, shardedData, bwDoRaise,
                   lastWrittenIds, coldStart, bwCycles>>
    /\ UNCHANGED notBW

\* a poll cycle that finds new records: purge for a new raw, then write
BWFound ==
    /\ bwPc = "loop"
    /\ bwCycles < MaxCycles
    /\ Found # {}
    /\ found' = [product \in Found |-> Get(getLatestExpRecord(product))]
    /\ IF "raw" \in Found
       THEN /\ shardedData' = deleteExistingData(shardedData,
                                                 Get(getLatestExpRecord("raw")))
            /\ bwLast' = [found |-> Found,
                          purged |-> Some(Get(getLatestExpRecord("raw")).id),
                          written |-> {},
                          removed |-> shardedData \ shardedData']
       ELSE /\ shardedData' = shardedData
            /\ bwLast' = [found |-> Found, purged |-> None, written |-> {}, removed |-> {}]
    /\ bwPc' = "write"
    /\ UNCHANGED <<registry, dataIdFiles, bwDoRaise, lastWrittenIds,
                   coldStart, bwCycles>>
    /\ UNCHANGED notBW

\* the except clause of ButlerWatcher.run: sleep(1), raiseIf(self.doRaise, ...)
BWExcept ==
    bwPc' = IF bwDoRaise THEN "crashed" ELSE "loop"

\* a poll cycle in which the query or the purge raises: nothing is written
BWCycleRaises ==
    /\ bwPc = "loop"
    /\ bwCycles < MaxCycles
    /\ BWExcept
    /\ bwCycles' = bwCycles + 1
    /\ bwLast' = [found |-> {}, purged |-> None, written |-> {}, removed |-> {}]
    /\ UNCHANGED <<registry, dataIdFiles, shardedData, bwDoRaise,
                   lastWrittenIds, found, coldStart>>
    /\ UNCHANGED notBW

\* a poll cycle with a new raw in which os.remove of _deleteExistingData
\* raises (it is deliberately not caught there): the files before the one
\* that failed are gone, the except clause of run() ends the cycle
BWPurgeRaises ==
    /\ bwPc = "loop"
    /\ bwCycles < MaxCycles
    /\ "raw" \in Found
    /\ \E kept \in SUBSET PurgeTargets(shardedData,
                                        Get(getLatestExpRecord("raw"))) :
          /\ kept # {}
          /\ shardedData' =
                deleteExistingData(shardedData, Get(getLatestExpRecord("raw")))
                   \cup kept
    /\ BWExcept
    /\ bwCycles' = bwCycles + 1
    /\ bwLast' = [found |-> Found, purged |-> None, written |-> {},
                  removed |-> shardedData \ shardedData']
    /\ UNCHANGED <<registry, dataIdFiles, bwDoRaise, lastWrittenIds, found,
                   coldStart>>
    /\ UNCHANGED notBW

\* the markers of the records found are written, lastWrittenIds updated
BWWrite ==
    /\ bwPc = "write"
    /\ dataIdFiles' = [product \in dataProducts |->
          IF product \in DOMAIN found
          THEN dataIdFiles[product] \cup {found[product].id}
          ELSE dataIdFiles[product]]
    /\ lastWrittenIds' = [product \in dataProducts |->
          IF product \in DOMAIN found
          THEN Some(IntVal(found[product].id))
          ELSE lastWrittenIds[product]]
    /\ bwLast' = [bwLast EXCEPT !.written = DOMAIN found]
    /\ bwCycles' = bwCycles + 1
    /\ found' = <<>>
    /\ bwPc' = "loop"
    /\ UNCHANGED <<registry, shardedData, bwDoRaise, coldStart>>
    /\ UNCHANGED notBW

\* a dataset of a product lands in the butler repository
BWNewDataset ==
    /\ \E product \in dataProducts, r \in Exposures :
          /\ r \notin registry[product]
          /\ product = "quickLookExp" => r \in registry["raw"]
          /\ registry' = [registry EXCEPT ![product] = @ \cup {r}]
    /\ UNCHANGED <<dataIdFiles, shardedData, bwPc, bwDoRaise, lastWrittenIds,
                   found, coldStart, bwCycles, bwLast>>
    /\ UNCHANGED notBW

\* a downstream process writes a sharded file for an exposure
BWNewShardedData ==
    /\ \E dataset \in ALLOWED_DATASET_TYPES, r \in registry["raw"] :
          shardedData' = shardedData \cup
              {[dataset |-> dataset, day_obs |-> r.day_obs, seq_num |-> r.seq_num]}
    /\ shardedData' # shardedData
    /\ UNCHANGED <<registry, dataIdFiles, bwPc, bwDoRaise, lastWrittenIds,
                   found, coldStart, bwCycles, bwLast>>
    /\ UNCHANGED notBW

\* ButlerWatcher.__init__ on a repository and a scan directory left by an
\* earlier run: each marker on disk is of an exposure of the registry
InitBW ==
    /\ registry \in [dataProducts -> SUBSET Exposures]
    /\ registry["quickLookExp"] \subseteq registry["raw"]
    /\ dataIdFiles \in [dataProducts -> SUBSET {r.id : r \in Exposures}]
    /\ \A product \in dataProducts :
          dataIdFiles[product] \subseteq {r.id : r \in registry[product]}
    /\ shardedData = {}
    /\ bwPc = "start"
    /\ bwDoRaise \in BOOLEAN
    /\ lastWrittenIds = [product \in dataProducts |-> None]
    /\ found = <<>>
    /\ coldStart = [product \in dataProducts |-> None]
    /\ bwCycles = 0
    /\ bwLast = [found |-> {}, purged |-> None, written |-> {}, removed |-> {}]

-----------------------------------------------------------------------------
(* MetadataServer.mergeShardsAndUpload (rubinTv.py).                       *)

\* the processes that merge shards: the metadata channel (its callback) and
\* the background service (at end of day)
Mergers == {"metadataServer", "backgroundService"}

Shards == 1..NumShards

\* The shard files writers may create.  Shard i is the i-th file name in
\* sorted order: metadata-dayObs_<dayObs>_<uuid>.json
ShardDayObs(i) == IF i <= 3 THEN 20221027 ELSE 20221028

\* a parse of the file name that gives the same dayObs for every shard
DayObsOfFilenameSame(i) == ShardDayObs(1)

\* dayObs = int(filename.split("_", 2)[1])
DayObsOfFilename(i) == ShardDayObs(i)

\* json content of shard i: {seqNum: {column: value}}
ShardContent(i) ==
    CASE i = 1 -> [row \in {5} |-> [a |-> 1]]
      [] i = 2 -> [row \in {5} |-> [b |-> 2]]
      [] i = 3 -> [row \in {5} |-> [a |-> 9]]
      [] OTHER -> [row \in {7} |-> [x |-> i]]

\* every shard file of the model
AllShards == 1..NumShardsOne

DayObss == {ShardDayObs(i) : i \in AllShards}

\* the empty dict
EmptyDict == [row \in {} |-> 0]

\* dict.update: the keys of u overwrite those of d
DictUpdate(d, u) ==
    [k \in DOMAIN d \cup DOMAIN u |-> IF k \in DOMAIN u THEN u[k] ELSE d[k]]

\* a merge that replaces the whole row: data.update(shard)
MergeShardByRecord(d, shard) == DictUpdate(d, shard)

\* the merge loop: "for row in shard: if row in data:
\* data[row].update(shard[row]) else: data.update({row: shard[row]})"
MergeShard(d, shard) ==
    [row \in DOMAIN d \cup DOMAIN shard |->
        IF row \in DOMAIN shard
        THEN IF row \in DOMAIN d THEN DictUpdate(d[row], shard[row])
             ELSE shard[row]
        ELSE d[row]]

\* the names of a set of shard files in sorted() order
RECURSIVE SortedSeq(_)
SortedSeq(S) ==
    IF S = {} THEN <<>>
    ELSE LET least == CHOOSE x \in S : \A y \in S : x <= y
         IN <<least>> \o SortedSeq(S \ {least})

\* "data = {}", then the content of mainFile if it is a non-empty file
LoadMainFile(dObs) ==
    IF mainFiles[dObs] = None THEN EmptyDict ELSE Get(mainFiles[dObs])

\* a pass is cut short by an exception: MetadataServer.callback logs it
MAbort(m) ==
    /\ mPc' = [mPc EXCEPT ![m] = "idle"]
    /\ shardFiles' = [shardFiles EXCEPT ![m] = <<>>]
    /\ data' = [data EXCEPT ![m] = EmptyDict]
    /\ filesTouched' = [filesTouched EXCEPT ![m] = {}]
    /\ faulted' = TRUE
    /\ lastPass' = [lastPass EXCEPT ![m] = "aborted"]
    /\ UNCHANGED <<listed, late, uploadLog>>

\* shardFiles = sorted(glob(...)); with no shard the pass is over
MList(m) ==
    /\ mPc[m] = "idle"
    /\ shardFiles' = [shardFiles EXCEPT ![m] = SortedSeq(shardsDir)]
    /\ mPc' = [mPc EXCEPT ![m] = IF shardsDir = {} THEN "idle" ELSE "readMain"]
    /\ filesTouched' = [filesTouched EXCEPT ![m] = {}]
    /\ mRemoved' = [mRemoved EXCEPT ![m] = {}]
    /\ active' = active \cup {m}
    /\ listed' = [listed EXCEPT ![m] = shardsDir]
    /\ late' = [late EXCEPT ![m] = {}]
    /\ uploadLog' = [uploadLog EXCEPT ![m] = <<>>]
    /\ lastPass' = [lastPass EXCEPT ![m] = IF shardsDir = {} THEN "completed"
                                           ELSE "running"]
    /\ UNCHANGED <<shardsDir, mainFiles, bucket, data, written, faulted, writable>>
    /\ mainAtList' = [mainAtList EXCEPT ![m] = mainFiles]
    /\ UNCHANGED notList

\* filesTouched.add(mainFile) and the load of mainFile into data
MReadMain(m) ==
    /\ mPc[m] = "readMain"
    /\ LET dObs == DayObsOfFilename(Head(shardFiles[m]))
       IN /\ filesTouched' = [filesTouched EXCEPT ![m] = @ \cup {dObs}]
          /\ data' = [data EXCEPT ![m] = LoadMainFile(dObs)]
    /\ mPc' = [mPc EXCEPT ![m] = "readShard"]
    /\ UNCHANGED <<shardsDir, mainFiles, bucket, shardFiles, written, mRemoved,
                   active, faulted, writable, listed, late, uploadLog, lastPass>>
    /\ UNCHANGED notMG

\* the shard is loaded and merged into data; open() raises if it is gone
MReadShard(m) ==
    /\ mPc[m] = "readShard"
    /\ IF Head(shardFiles[m]) \in shardsDir
       THEN /\ data' = [data EXCEPT ![m] =
                           MergeShard(@, ShardContent(Head(shardFiles[m])))]
            /\ mPc' = [mPc EXCEPT ![m] = "remove"]
            /\ UNCHANGED <<shardFiles, filesTouched, faulted, listed, late,
                           uploadLog, lastPass>>
       ELSE MAbort(m)
    /\ UNCHANGED <<shardsDir, mainFiles, bucket, written, mRemoved, active,
                   writable>>
    /\ UNCHANGED notMG

\* a failed load of the shard after which the shard file is removed all the
\* same, as by a "finally: os.remove(shardFile)"
MReadShardRaisesAndRemoves(m) ==
    /\ mPc[m] = "readShard"
    /\ Head(shardFiles[m]) \in shardsDir
    /\ shardsDir' = shardsDir \ {Head(shardFiles[m])}
    /\ mRemoved' = [mRemoved EXCEPT ![m] = @ \cup {Head(shardFiles[m])}]
    /\ mPc' = [mPc EXCEPT ![m] = "idle"]
    /\ shardFiles' = [shardFiles EXCEPT ![m] = <<>>]
    /\ data' = [data EXCEPT ![m] = EmptyDict]
    /\ filesTouched' = [filesTouched EXCEPT ![m] = {}]
    /\ faulted' = TRUE
    /\ lastPass' = [lastPass EXCEPT ![m] = "shardRaised"]
    /\ UNCHANGED <<listed, late, uploadLog>>
    /\ UNCHANGED <<mainFiles, bucket, written, active, writable>>
    /\ UNCHANGED notMG

\* json.load(f) of the shard raises (the file is being written, or is not
\* JSON): the exception leaves mergeShardsAndUpload, and
\* MetadataServer.callback logs it
MReadShardRaises(m) ==
    /\ mPc[m] = "readShard"
    /\ Head(shardFiles[m]) \in shardsDir
    /\ mPc' = [mPc EXCEPT ![m] = "idle"]
    /\ shardFiles' = [shardFiles EXCEPT ![m] = <<>>]
    /\ data' = [data EXCEPT ![m] = EmptyDict]
    /\ filesTouched' = [filesTouched EXCEPT ![m] = {}]
    /\ faulted' = TRUE
    /\ lastPass' = [lastPass EXCEPT ![m] = "shardRaised"]
    /\ UNCHANGED <<listed, late, uploadLog>>
    /\ UNCHANGED <<shardsDir, mainFiles, bucket, written, mRemoved, active,
                   writable>>
    /\ UNCHANGED notMG

\* a pass that leaves the shard files it has merged in the directory
MRemoveKeeps(m) ==
    /\ mPc[m] = "remove"
    /\ mPc' = [mPc EXCEPT ![m] = "write"]
    /\ UNCHANGED <<shardsDir, mRemoved, shardFiles, data, filesTouched, faulted,
                   listed, late, uploadLog, lastPass>>
    /\ UNCHANGED <<mainFiles, bucket, written, active, writable>>
    /\ UNCHANGED notMG

\* a removal that empties the shard directory instead of removing shardFile
MRemoveAll(m) ==
    /\ mPc[m] = "remove"
    /\ shardsDir' = {}
    /\ mRemoved' = [mRemoved EXCEPT ![m] = @ \cup shardsDir]
    /\ mPc' = [mPc EXCEPT ![m] = "write"]
    /\ UNCHANGED <<shardFiles, data, filesTouched, faulted, listed, late,
                   uploadLog, lastPass>>
    /\ UNCHANGED <<mainFiles, bucket, written, active, writable>>
    /\ UNCHANGED notMG

\* os.remove(shardFile); it raises if the file is gone
MRemove(m) ==
    /\ mPc[m] = "remove"
    /\ IF Head(shardFiles[m]) \in shardsDir
       THEN /\ shardsDir' = shardsDir \ {Head(shardFiles[m])}
            /\ mRemoved' = [mRemoved EXCEPT ![m] = @ \cup {Head(shardFiles[m])}]
            /\ mPc' = [mPc EXCEPT ![m] = "write"]
            /\ UNCHANGED <<shardFiles, data, filesTouched, faulted, listed, late,
                           uploadLog, lastPass>>
       ELSE /\ MAbort(m)
            /\ UNCHANGED <<shardsDir, mRemoved>>
    /\ UNCHANGED <<mainFiles, bucket, written, active, writable>>
    /\ UNCHANGED notMG

\* a write of mainFile that uploads the file at once, inside the loop
MWriteAndUpload(m) ==
    /\ mPc[m] = "write"
    /\ mainFiles' = [mainFiles EXCEPT
                        ![DayObsOfFilename(Head(shardFiles[m]))] = Some(data[m])]
    /\ shardFiles' = [shardFiles EXCEPT ![m] = Tail(@)]
    /\ mPc' = [mPc EXCEPT ![m] = IF Tail(shardFiles[m]) = <<>> THEN "upload"
                                 ELSE "readMain"]
    /\ uploadLog' = [uploadLog EXCEPT ![m] = Append(@,
                        [file |-> DayObsOfFilename(Head(shardFiles[m])),
                         isLiveFile |-> TRUE,
                         pending |-> Len(Tail(shardFiles[m]))])]
    /\ UNCHANGED <<shardsDir, bucket, data, filesTouched, written, mRemoved,
                   active, faulted, writable, listed, late, lastPass>>
    /\ UNCHANGED notMG

\* json.dump(data) to mainFile, then the next shard or the uploads
MWrite(m) ==
    /\ mPc[m] = "write"
    /\ mainFiles' = [mainFiles EXCEPT
                        ![DayObsOfFilename(Head(shardFiles[m]))] = Some(data[m])]
    /\ shardFiles' = [shardFiles EXCEPT ![m] = Tail(@)]
    /\ mPc' = [mPc EXCEPT ![m] = IF Tail(shardFiles[m]) = <<>> THEN "upload"
                                 ELSE "readMain"]
    /\ UNCHANGED <<shardsDir, bucket, data, filesTouched, written, mRemoved,
                   active, faulted, writable, listed, late, uploadLog, lastPass>>
    /\ UNCHANGED notMG

\* writing mainFile raises (open or json.dump fails): the pass is cut short
MWriteRaises(m) ==
    /\ mPc[m] = "write"
    /\ MAbort(m)
    /\ UNCHANGED <<shardsDir, mainFiles, bucket, written, mRemoved, active,
                   writable>>
    /\ UNCHANGED notMG

\* the googleUpload calls of the loop "for file in filesTouched"
UploadCalls(m) ==
    LET files == SortedSeq(filesTouched[m])
    IN [k \in 1..Len(files) |->
           [file |-> files[k], isLiveFile |-> TRUE, pending |-> Len(shardFiles[m])]]

\* googleUpload of every file touched; a failed upload is logged and skipped
MUpload(m) ==
    /\ mPc[m] = "upload"
    /\ uploadLog' = [uploadLog EXCEPT ![m] = @ \o UploadCalls(m)]
    /\ lastPass' = [lastPass EXCEPT ![m] = "completed"]
    /\ \E ok \in SUBSET filesTouched[m] :
          bucket' = [dObs \in DayObss |->
                        IF dObs \in ok THEN mainFiles[dObs] ELSE bucket[dObs]]
    /\ mPc' = [mPc EXCEPT ![m] = "idle"]
    /\ data' = [data EXCEPT ![m] = EmptyDict]
    /\ filesTouched' = [filesTouched EXCEPT ![m] = {}]
    /\ UNCHANGED <<shardsDir, mainFiles, shardFiles, written, mRemoved, active,
                   faulted, writable, listed, late>>
    /\ UNCHANGED notMG

\* the process is killed in the middle of a pass and started again
MKill(m) ==
    /\ mPc[m] \notin {"idle", "off"}
    /\ MAbort(m)
    /\ UNCHANGED <<shardsDir, mainFiles, bucket, written, mRemoved, active,
                   writable>>
    /\ UNCHANGED notMG

\* a writer creates a shard file (writeShardForDataId, writeMetadataShard)
MWriteShard ==
    /\ \E i \in writable \ written :
          /\ shardsDir' = shardsDir \cup {i}
          /\ written' = written \cup {i}
          /\ late' = [m \in Mergers |-> late[m] \cup {i}]
    /\ UNCHANGED <<mainFiles, bucket, mPc, shardFiles, data, filesTouched,
                   mRemoved, active, faulted, writable, listed, uploadLog, lastPass>>
    /\ UNCHANGED notMG

\* MetadataServer.__init__: empty directories
InitMG ==
    /\ shardsDir = {}
    /\ mainFiles = [dObs \in DayObss |-> None]
    /\ bucket = [dObs \in DayObss |-> None]
    /\ mPc = [m \in Mergers |-> "idle"]
    /\ shardFiles = [m \in Mergers |-> <<>>]
    /\ data = [m \in Mergers |-> EmptyDict]
    /\ filesTouched = [m \in Mergers |-> {}]
    /\ written = {}
    /\ mRemoved = [m \in Mergers |-> {}]
    /\ active = {}
    /\ faulted = FALSE
    /\ writable = Shards
    /\ listed = [m \in Mergers |-> {}]
    /\ late = [m \in Mergers |-> {}]
    /\ uploadLog = [m \in Mergers |-> <<>>]
    /\ lastPass = [m \in Mergers |-> "none"]

\* the metadata channel alone: the background service does not merge
InitMGOne ==
    /\ shardsDir = {}
    /\ mainFiles = [dObs \in DayObss |-> None]
    /\ bucket = [dObs \in DayObss |-> None]
    /\ mPc = [m \in Mergers |-> IF m = "metadataServer" THEN "idle" ELSE "off"]
    /\ shardFiles = [m \in Mergers |-> <<>>]
    /\ data = [m \in Mergers |-> EmptyDict]
    /\ filesTouched = [m \in Mergers |-> {}]
    /\ written = {}
    /\ mRemoved = [m \in Mergers |-> {}]
    /\ active = {}
    /\ faulted = FALSE
    /\ writable = AllShards
    /\ listed = [m \in Mergers |-> {}]
    /\ late = [m \in Mergers |-> {}]
    /\ uploadLog = [m \in Mergers |-> <<>>]
    /\ lastPass = [m \in Mergers |-> "none"]

NextMG ==
    \/ \E m \in Mergers : MList(m)
    \/ \E m \in Mergers : MReadMain(m)
    \/ \E m \in Mergers : MReadShard(m)
    \/ \E m \in Mergers : MReadShardRaises(m)
    \/ \E m \in Mergers : MRemove(m)
    \/ \E m \in Mergers : MWrite(m)
    \/ \E m \in Mergers : MWriteRaises(m)
    \/ \E m \in Mergers : MUpload(m)
    \/ \E m \in Mergers : MKill(m)
    \/ MWriteShard

NextBW ==
    \/ BWStart
    \/ BWNothingNew
    \/ BWFound
    \/ BWCycleRaises
    \/ BWPurgeRaises
    \/ BWWrite
    \/ BWNewDataset
    \/ BWNewShardedData

-----------------------------------------------------------------------------
(* RubinTvBackgroundService.runCatchup and its four routines               *)
(* (catchupService.py).                                                    *)

SeqNums == 1..MaxSeqNum

Days == FirstDayObs..(FirstDayObs + MaxRollovers)

\* the routines runCatchup calls, in the order of its list
Components == <<"catchupMetadata", "catchupIsrRunner", "catchupMonitor",
                "catchupMountTorques">>

\* the position after the routine at index k of Components has ended
AfterComponent(k) == IF k < Len(Components) THEN Components[k + 1]
                     ELSE "afterCatchup"

\* the positions inside runCatchup that belong to each routine
PcsOf(component) ==
    CASE component = "catchupMetadata" -> {"catchupMetadata", "metadataLoop"}
      [] component = "catchupIsrRunner" -> {"catchupIsrRunner", "isrSleep", "isrLoop"}
      [] OTHER -> {component}

\* component.__call__() has begun: the routine is noted once
Called(component) ==
    IF \E k \in 1..Len(ran) : ran[k] = component THEN ran
    ELSE Append(ran, component)

\* getMissingQuickLookIds without the test "s not in foundSeqNums"
\* {'day_obs': self.dayObs, 'seq_num': s, 'detector': 0}
DataIdOf(day, s) == [day_obs |-> day, seq_num |-> s, detector |-> 0]

\* [DataIdOf(day, s) for s in allSeqNums], with no test on s
RECURSIVE AllDataIds(_, _, _)
AllDataIds(day, allSeqNums, foundSeqNums) ==
    IF allSeqNums = <<>> THEN <<>>
    ELSE <<DataIdOf(day, Head(allSeqNums))>> \o
         AllDataIds(day, Tail(allSeqNums), foundSeqNums)

\* the two list comprehensions of getMissingQuickLookIds:
\* [DataIdOf(day, s) for s in allSeqNums if s not in foundSeqNums]
RECURSIVE MissingDataIds(_, _, _)
MissingDataIds(day, allSeqNums, foundSeqNums) ==
    IF allSeqNums = <<>> THEN <<>>
    ELSE (IF Head(allSeqNums) \notin foundSeqNums
          THEN <<DataIdOf(day, Head(allSeqNums))>> ELSE <<>>) \o
         MissingDataIds(day, Tail(allSeqNums), foundSeqNums)

getMissingQuickLookIdsNoFilter ==
    AllDataIds(dayObs, SortedSeq(seqNums[dayObs]), quickLooks[dayObs])

\* getMissingQuickLookIds: the dataIds of the upstream sequence numbers of
\* the tracked day without a quickLookExp, in upstream order
getMissingQuickLookIds ==
    MissingDataIds(dayObs, SortedSeq(seqNums[dayObs]), quickLooks[dayObs])

\* "missing" without the test "k not in seqNumsPresent"
MissingMetadataUnfiltered ==
    SortedSeq(seqNums[dayObs])

\* "missing" of catchupMetadata: the upstream sequence numbers that are not
\* keys of the sidecar file
MissingMetadata ==
    SortedSeq({k \in seqNums[dayObs] : k \notin Get(sidecar[dayObs])})

\* an except clause of runCatchup that gives up the rest of the pass
CUExceptAbortsPass(k) ==
    /\ raisedIn' = raisedIn \cup {Components[k]}
    /\ ran' = Called(Components[k])
    /\ missing' = <<>>
    /\ bgPc' = IF bgDoRaise THEN "crashed" ELSE "afterCatchup"

\* the except clause of runCatchup: raiseIf(self.doRaise, e, self.log); a
\* re-raised error leaves run() through its own raiseIf
CUExcept(k) ==
    /\ raisedIn' = raisedIn \cup {Components[k]}
    /\ ran' = Called(Components[k])
    /\ missing' = <<>>
    /\ bgPc' = IF bgDoRaise THEN "crashed" ELSE AfterComponent(k)

\* an error escapes the routine at index k of Components
CURaises(k) ==
    /\ bgPc \in PcsOf(Components[k])
    /\ CUExcept(k)
    /\ UNCHANGED <<bgDoRaise, dayObs, currentDayObs, bgNow, lastRun, bgHeartbeater,
                   seqNums, quickLooks, sidecar, mdShards, atEnum, remade,
                   prodLog, finalized, lastEod, bgPasses>>
    /\ UNCHANGED notBG

\* catchupMetadata up to its loop: without a sidecar file it returns
CUMetadataEnum ==
    /\ bgPc = "catchupMetadata"
    /\ ran' = Called("catchupMetadata")
    /\ IF sidecar[dayObs] = None
       THEN /\ bgPc' = AfterComponent(1)
            /\ UNCHANGED <<missing, atEnum>>
       ELSE /\ missing' = MissingMetadata
            /\ atEnum' = [present |-> Get(sidecar[dayObs]), upstream |-> seqNums[dayObs]]
            /\ bgPc' = "metadataLoop"
    /\ UNCHANGED <<bgDoRaise, dayObs, currentDayObs, bgNow, lastRun, bgHeartbeater,
                   seqNums, quickLooks, sidecar, mdShards, raisedIn, remade,
                   prodLog, finalized, lastEod, bgPasses>>
    /\ UNCHANGED notBG

\* self.mdServer.writeShardForExpRecord(expRecord) when it does not raise:
\* the shard of the exposure is in the shards directory
writeShardForExpRecord(shards, day, seqNum) ==
    shards \cup {[day_obs |-> day, seq_num |-> seqNum]}

\* a loop of catchupMetadata that the first failed shard ends
CUMetadataShardStopsAtFailure ==
    /\ bgPc = "metadataLoop"
    /\ missing # <<>>
    /\ \E ok \in BOOLEAN :
          /\ mdShards' = IF ok THEN writeShardForExpRecord(mdShards, dayObs, Head(missing))
                         ELSE mdShards
          /\ missing' = IF ok THEN Tail(missing) ELSE <<>>
    /\ prodLog' = prodLog \cup
          {[routine |-> "catchupMetadata", seq_num |-> Head(missing),
            present |-> Head(missing) \in Get(sidecar[dayObs]),
            presentAtEnum |-> Head(missing) \in atEnum.present]}
    /\ UNCHANGED <<bgPc, bgDoRaise, dayObs, currentDayObs, bgNow, lastRun,
                   bgHeartbeater, seqNums, quickLooks, sidecar, atEnum, ran,
                   raisedIn, remade, finalized, lastEod, bgPasses>>
    /\ UNCHANGED notBG

\* one turn of the loop of catchupMetadata: writeShardForExpRecord; its
\* failure is logged
CUMetadataShard ==
    /\ bgPc = "metadataLoop"
    /\ missing # <<>>
    /\ \E ok \in BOOLEAN :
          mdShards' = IF ok THEN writeShardForExpRecord(mdShards, dayObs, Head(missing))
                      ELSE mdShards
    /\ prodLog' = prodLog \cup
          {[routine |-> "catchupMetadata", seq_num |-> Head(missing),
            present |-> Head(missing) \in Get(sidecar[dayObs]),
            presentAtEnum |-> Head(missing) \in atEnum.present]}
    /\ missing' = Tail(missing)
    /\ UNCHANGED <<bgPc, bgDoRaise, dayObs, currentDayObs, bgNow, lastRun,
                   bgHeartbeater, seqNums, quickLooks, sidecar, atEnum, ran,
                   raisedIn, remade, finalized, lastEod, bgPasses>>
    /\ UNCHANGED notBG

\* a catchupMetadata that ends with mdServer.mergeShardsAndUpload(): the
\* shards of the tracked day go into its sidecar file, which is uploaded
CUMetadataDoneMerges ==
    /\ bgPc = "metadataLoop"
    /\ missing = <<>>
    /\ bgPc' = AfterComponent(1)
    /\ LET rows == {shard.seq_num : shard \in {m \in mdShards : m.day_obs = dayObs}}
       IN IF rows = {}
          THEN UNCHANGED <<sidecar, mdShards, mdUploads>>
          ELSE /\ sidecar' = [sidecar EXCEPT ![dayObs] = Some(Get(@) \cup rows)]
               /\ mdShards' = {m \in mdShards : m.day_obs # dayObs}
               /\ mdUploads' = mdUploads \cup {"catchup"}
    /\ UNCHANGED <<bgDoRaise, dayObs, currentDayObs, bgNow, lastRun, bgHeartbeater,
                   seqNums, quickLooks, missing, atEnum, ran,
                   raisedIn, remade, prodLog, finalized, lastEod, bgPasses>>
    /\ UNCHANGED notLive

\* the loop of catchupMetadata is over
CUMetadataDone ==
    /\ bgPc = "metadataLoop"
    /\ missing = <<>>
    /\ bgPc' = AfterComponent(1)
    /\ UNCHANGED <<bgDoRaise, dayObs, currentDayObs, bgNow, lastRun, bgHeartbeater,
                   seqNums, quickLooks, sidecar, mdShards, missing, atEnum, ran,
                   raisedIn, remade, prodLog, finalized, lastEod, bgPasses>>
    /\ UNCHANGED notBG

\* catchupIsrRunner up to its sleep: the gaps are enumerated
CUIsrEnum ==
    /\ bgPc = "catchupIsrRunner"
    /\ ran' = Called("catchupIsrRunner")
    /\ missing' = getMissingQuickLookIds
    /\ atEnum' = [present |-> quickLooks[dayObs], upstream |-> seqNums[dayObs]]
    /\ bgPc' = "isrSleep"
    /\ UNCHANGED <<bgDoRaise, dayObs, currentDayObs, bgNow, lastRun, bgHeartbeater,
                   seqNums, quickLooks, sidecar, mdShards, raisedIn, remade,
                   prodLog, finalized, lastEod, bgPasses>>
    /\ UNCHANGED notBG

\* sleep(5)
CUIsrSleep ==
    /\ bgPc = "isrSleep"
    /\ bgNow' = bgNow + isrSleep
    /\ bgPc' = "isrLoop"
    /\ UNCHANGED <<bgDoRaise, dayObs, currentDayObs, lastRun, bgHeartbeater,
                   seqNums, quickLooks, sidecar, mdShards, missing, atEnum, ran,
                   raisedIn, remade, prodLog, finalized, lastEod, bgPasses>>
    /\ UNCHANGED notBG

\* one turn of the loop of catchupIsrRunner: bestEffort.getExposure(dataId);
\* a ConflictingDefinitionError is ignored
CUIsrProduce ==
    /\ bgPc = "isrLoop"
    /\ missing # <<>>
    /\ quickLooks' = [quickLooks EXCEPT ![dayObs] = @ \cup {Head(missing).seq_num}]
    /\ prodLog' = prodLog \cup
          {[routine |-> "catchupIsrRunner", seq_num |-> Head(missing).seq_num,
            present |-> Head(missing).seq_num \in quickLooks[dayObs],
            presentAtEnum |-> Head(missing).seq_num \in atEnum.present]}
    /\ missing' = Tail(missing)
    /\ UNCHANGED <<bgPc, bgDoRaise, dayObs, currentDayObs, bgNow, lastRun,
                   bgHeartbeater, seqNums, sidecar, mdShards, atEnum, ran,
                   raisedIn, remade, finalized, lastEod, bgPasses>>
    /\ UNCHANGED notBG

\* the loop of catchupIsrRunner is over
CUIsrDone ==
    /\ bgPc = "isrLoop"
    /\ missing = <<>>
    /\ bgPc' = AfterComponent(2)
    /\ UNCHANGED <<bgDoRaise, dayObs, currentDayObs, bgNow, lastRun, bgHeartbeater,
                   seqNums, quickLooks, sidecar, mdShards, missing, atEnum, ran,
                   raisedIn, remade, prodLog, finalized, lastEod, bgPasses>>
    /\ UNCHANGED notBG

\* catchupMonitor (k = 3) and catchupMountTorques (k = 4): remakeDay
CURemakeDay(k) ==
    /\ k \in {3, 4}
    /\ bgPc = Components[k]
    /\ ran' = Called(Components[k])
    /\ remade' = remade \cup {Components[k]}
    /\ bgPc' = AfterComponent(k)
    /\ UNCHANGED <<bgDoRaise, dayObs, currentDayObs, bgNow, lastRun, bgHeartbeater,
                   seqNums, quickLooks, sidecar, mdShards, missing, atEnum,
                   raisedIn, prodLog, finalized, lastEod, bgPasses>>
    /\ UNCHANGED notBG

\* a new exposure lands upstream for the current day
CUNewExposure ==
    /\ \E s \in SeqNums \ seqNums[currentDayObs] :
          seqNums' = [seqNums EXCEPT ![currentDayObs] = @ \cup {s}]
    /\ UNCHANGED <<bgPc, bgDoRaise, dayObs, currentDayObs, bgNow, lastRun,
                   bgHeartbeater, quickLooks, sidecar, mdShards, missing, atEnum,
                   ran, raisedIn, remade, prodLog, finalized, lastEod, bgPasses>>
    /\ UNCHANGED notBG

\* the live path (IsrRunner.callback) puts the quickLookExp of an exposure
CULiveIsr ==
    /\ \E d \in Days : \E s \in seqNums[d] \ quickLooks[d] :
          quickLooks' = [quickLooks EXCEPT ![d] = @ \cup {s}]
    /\ UNCHANGED <<bgPc, bgDoRaise, dayObs, currentDayObs, bgNow, lastRun,
                   bgHeartbeater, seqNums, sidecar, mdShards, missing, atEnum,
                   ran, raisedIn, remade, prodLog, finalized, lastEod, bgPasses>>
    /\ UNCHANGED notBG

\* the live path (MetadataServer.callback) merges the row of an exposure
\* into the sidecar file of its day and uploads the file
CULiveMetadata ==
    /\ \E d \in Days : \E s \in seqNums[d] :
          /\ IF sidecar[d] = None THEN TRUE ELSE s \notin Get(sidecar[d])
          /\ sidecar' = [sidecar EXCEPT ![d] =
                IF @ = None THEN Some({s}) ELSE Some(Get(@) \cup {s})]
    /\ mdUploads' = mdUploads \cup {"live"}
    /\ UNCHANGED <<bgPc, bgDoRaise, dayObs, currentDayObs, bgNow, lastRun,
                   bgHeartbeater, seqNums, quickLooks, mdShards, missing, atEnum,
                   ran, raisedIn, remade, prodLog, finalized, lastEod, bgPasses>>
    /\ UNCHANGED notLive

\* the stores of a repository in which the current day is under way
InitStores ==
    /\ seqNums \in [Days -> SUBSET SeqNums]
    /\ \A d \in Days : d # FirstDayObs => seqNums[d] = {}
    /\ quickLooks \in [Days -> SUBSET SeqNums]
    /\ \A d \in Days : quickLooks[d] \subseteq seqNums[d]
    /\ sidecar \in [Days -> {None} \cup {Some(S) : S \in SUBSET SeqNums}]
    /\ \A d \in Days : sidecar[d] # None =>
          (Get(sidecar[d]) # {} /\ Get(sidecar[d]) \subseteq seqNums[d])
    /\ mdShards = {}

\* RubinTvBackgroundService.__init__ and the entry of runCatchup
InitCU ==
    /\ bgPc = "catchupMetadata"
    /\ bgDoRaise \in BOOLEAN
    /\ dayObs = FirstDayObs
    /\ currentDayObs = FirstDayObs
    /\ bgNow = StartTime
    /\ lastRun = StartTime
    /\ bgHeartbeater = HeartbeaterInit(BG_HEARTBEAT_UPLOAD_PERIOD,
                                       BG_HEARTBEAT_FLATLINE_PERIOD)
    /\ InitStores
    /\ missing = <<>>
    /\ atEnum = [present |-> {}, upstream |-> {}]
    /\ ran = <<>>
    /\ raisedIn = {}
    /\ remade = {}
    /\ prodLog = {}
    /\ finalized = <<>>
    /\ lastEod = "none"
    /\ bgPasses = 1

\* the sequence numbers of the day in a run of catchupMetadata alone
MetadataSeqNums == 1..(MaxSeqNum + 1)

\* RubinTvBackgroundService.__init__ and the entry of catchupMetadata on a
\* day of up to MaxSeqNum + 1 exposures
InitCM ==
    /\ bgPc = "catchupMetadata"
    /\ bgDoRaise \in BOOLEAN
    /\ dayObs = FirstDayObs
    /\ currentDayObs = FirstDayObs
    /\ bgNow = StartTime
    /\ lastRun = StartTime
    /\ bgHeartbeater = HeartbeaterInit(BG_HEARTBEAT_UPLOAD_PERIOD,
                                       BG_HEARTBEAT_FLATLINE_PERIOD)
    /\ seqNums \in [Days -> SUBSET MetadataSeqNums]
    /\ \A d \in Days : d # FirstDayObs => seqNums[d] = {}
    /\ quickLooks = [d \in Days |-> {}]
    /\ sidecar \in [Days -> {None} \cup {Some(S) : S \in SUBSET MetadataSeqNums}]
    /\ \A d \in Days : sidecar[d] # None =>
          (Get(sidecar[d]) # {} /\ Get(sidecar[d]) \subseteq seqNums[d])
    /\ mdShards = {}
    /\ missing = <<>>
    /\ atEnum = [present |-> {}, upstream |-> {}]
    /\ ran = <<>>
    /\ raisedIn = {}
    /\ remade = {}
    /\ prodLog = {}
    /\ finalized = <<>>
    /\ lastEod = "none"
    /\ bgPasses = 1

\* catchupMetadata alone, beside the live path
NextCM ==
    \/ CURaises(1)
    \/ CUMetadataEnum
    \/ CUMetadataShard
    \/ CUMetadataDone
    \/ CUNewExposure
    \/ CULiveMetadata

NextCU ==
    \/ \E k \in 1..Len(Components) : CURaises(k)
    \/ CUMetadataEnum
    \/ CUMetadataShard
    \/ CUMetadataDone
    \/ CUIsrEnum
    \/ CUIsrSleep
    \/ CUIsrProduce
    \/ CUIsrDone
    \/ \E k \in 1..Len(Components) : CURemakeDay(k)
    \/ CUNewExposure
    \/ CULiveIsr
    \/ CULiveMetadata

-----------------------------------------------------------------------------
(* RubinTvBackgroundService.run and runEndOfDay (catchupService.py).       *)

\* hasDayRolledOver(dayObs): the current day is no longer the given one
hasDayRolledOver(day) == currentDayObs # day

\* the clock of the service may advance by d seconds
MayElapse(d) == bgNow + d <= StartTime + MaxBgElapsed

\* the positions inside runEndOfDay
EodPcs == {"runEndOfDay", "allSkySleep"}

\* self.heartbeater.beat(customFlatlinePeriod=...) of run at time t; the
\* bucket accepts the uploads of the service
BGBeat(hb, t, customFlatlinePeriod) == Beat(hb, t, FALSE, customFlatlinePeriod, TRUE)

\* the two heartbeats of run after runEndOfDay has returned
BeatTwice(hb, t) == BGBeat(BGBeat(hb, t, None), t, None)

\* a call self.heartbeater.beat(customFlatlinePeriod=...) of run at time t
BeatRequest(t, customFlatlinePeriod) == [t |-> t, custom |-> customFlatlinePeriod]

\* the Heartbeater after the calls of reqs, made in that order
RECURSIVE BeatAll(_, _)
BeatAll(hb, reqs) ==
    IF reqs = <<>> THEN hb
    ELSE BeatAll(BGBeat(hb, Head(reqs).t, Head(reqs).custom), Tail(reqs))

\* a step of run that makes the calls of reqs
BGBeats(reqs) ==
    /\ requested' = reqs
    /\ bgHeartbeater' = BeatAll(bgHeartbeater, reqs)

\* run: the catchup period has not elapsed: sleep(loopSleep), then beat
BGLoopSleep ==
    /\ bgPc = "loop"
    /\ bgNow - lastRun < catchupPeriod
    /\ MayElapse(loopSleep)
    /\ bgNow' = bgNow + loopSleep
    /\ BGBeats(<<BeatRequest(bgNow', None)>>)
    /\ UNCHANGED <<bgPc, bgDoRaise, dayObs, currentDayObs, lastRun, seqNums,
                   quickLooks, sidecar, mdShards, missing, atEnum, ran, raisedIn,
                   remade, prodLog, finalized, lastEod, bgPasses>>
    /\ UNCHANGED passEnd
    /\ UNCHANGED notRun

\* run: the catchup period has elapsed: runCatchup is entered
BGLoopCatchup ==
    /\ bgPc = "loop"
    /\ bgNow - lastRun >= catchupPeriod
    /\ bgPasses < MaxPasses
    /\ bgPasses' = bgPasses + 1
    /\ bgPc' = Components[1]
    /\ UNCHANGED <<bgDoRaise, dayObs, currentDayObs, bgNow, lastRun, bgHeartbeater,
                   seqNums, quickLooks, sidecar, mdShards, missing, atEnum, ran,
                   raisedIn, remade, prodLog, finalized, lastEod>>
    /\ UNCHANGED notBG

\* BGAfterCatchup without sleep(endOfDayDelay): runEndOfDay is entered as
\* soon as the rollover is seen
BGAfterCatchupNoDelay ==
    /\ bgPc = "afterCatchup"
    /\ lastRun' = bgNow
    /\ IF hasDayRolledOver(dayObs)
       THEN /\ BGBeats(<<BeatRequest(bgNow, None),
                         BeatRequest(bgNow, Some((3 * 60 * 60) \div 2))>>)
            /\ bgPc' = "runEndOfDay"
            /\ finalized' = Append(finalized, dayObs)
       ELSE /\ BGBeats(<<BeatRequest(bgNow, None), BeatRequest(bgNow, None)>>)
            /\ bgPc' = "loop"
            /\ UNCHANGED finalized
    /\ missing' = <<>>
    /\ atEnum' = [present |-> {}, upstream |-> {}]
    /\ ran' = <<>>
    /\ raisedIn' = {}
    /\ remade' = {}
    /\ prodLog' = {}
    /\ UNCHANGED <<bgDoRaise, dayObs, currentDayObs, bgNow, seqNums, quickLooks,
                   sidecar, mdShards, lastEod, bgPasses>>
    /\ passEnd' = bgNow
    /\ UNCHANGED notRun

\* BGAfterCatchup without the heartbeat that announces the end-of-day delay
BGAfterCatchupPlainBeat ==
    /\ bgPc = "afterCatchup"
    /\ lastRun' = bgNow
    /\ BGBeats(<<BeatRequest(bgNow, None)>>)
    /\ bgPc' = IF hasDayRolledOver(dayObs) THEN "endOfDayDelay" ELSE "loop"
    /\ missing' = <<>>
    /\ atEnum' = [present |-> {}, upstream |-> {}]
    /\ ran' = <<>>
    /\ raisedIn' = {}
    /\ remade' = {}
    /\ prodLog' = {}
    /\ UNCHANGED <<bgDoRaise, dayObs, currentDayObs, bgNow, seqNums, quickLooks,
                   sidecar, mdShards, finalized, lastEod, bgPasses>>
    /\ passEnd' = bgNow
    /\ UNCHANGED notRun

\* BGAfterCatchup without "lastRun = time.time()"
BGAfterCatchupKeepsLastRun ==
    /\ bgPc = "afterCatchup"
    /\ lastRun' = lastRun
    /\ IF hasDayRolledOver(dayObs)
       THEN /\ BGBeats(<<BeatRequest(bgNow, None),
                         BeatRequest(bgNow, Some((endOfDayDelay * 3) \div 2))>>)
            /\ bgPc' = "endOfDayDelay"
       ELSE /\ BGBeats(<<BeatRequest(bgNow, None), BeatRequest(bgNow, None)>>)
            /\ bgPc' = "loop"
    /\ missing' = <<>>
    /\ atEnum' = [present |-> {}, upstream |-> {}]
    /\ ran' = <<>>
    /\ raisedIn' = {}
    /\ remade' = {}
    /\ prodLog' = {}
    /\ UNCHANGED <<bgDoRaise, dayObs, currentDayObs, bgNow, seqNums, quickLooks,
                   sidecar, mdShards, finalized, lastEod, bgPasses>>
    /\ passEnd' = bgNow
    /\ UNCHANGED notRun

\* run after runCatchup has returned: beat, lastRun, then either the
\* heartbeat that announces the end-of-day delay or the closing beat; the
\* history of the pass ends here
BGAfterCatchup ==
    /\ bgPc = "afterCatchup"
    /\ lastRun' = bgNow
    /\ IF hasDayRolledOver(dayObs)
       THEN /\ BGBeats(<<BeatRequest(bgNow, None),
                         BeatRequest(bgNow, Some((endOfDayDelay * 3) \div 2))>>)
            /\ bgPc' = "endOfDayDelay"
       ELSE /\ BGBeats(<<BeatRequest(bgNow, None), BeatRequest(bgNow, None)>>)
            /\ bgPc' = "loop"
    /\ missing' = <<>>
    /\ atEnum' = [present |-> {}, upstream |-> {}]
    /\ ran' = <<>>
    /\ raisedIn' = {}
    /\ remade' = {}
    /\ prodLog' = {}
    /\ UNCHANGED <<bgDoRaise, dayObs, currentDayObs, bgNow, seqNums, quickLooks,
                   sidecar, mdShards, finalized, lastEod, bgPasses>>
    /\ passEnd' = bgNow
    /\ UNCHANGED notRun

\* run: sleep(endOfDayDelay), the long heartbeat, and runEndOfDay is entered
BGEndOfDayDelay ==
    /\ bgPc = "endOfDayDelay"
    /\ MayElapse(endOfDayDelay)
    /\ bgNow' = bgNow + endOfDayDelay
    /\ BGBeats(<<BeatRequest(bgNow', Some((3 * 60 * 60) \div 2))>>)
    /\ bgPc' = "runEndOfDay"
    /\ finalized' = Append(finalized, dayObs)
    /\ UNCHANGED <<bgDoRaise, dayObs, currentDayObs, lastRun, seqNums, quickLooks,
                   sidecar, mdShards, missing, atEnum, ran, raisedIn, remade,
                   prodLog, lastEod, bgPasses>>
    /\ UNCHANGED passEnd
    /\ UNCHANGED notRun

\* runEndOfDay: animateDay and the upload of the movie
BGEodMovie ==
    /\ bgPc = "runEndOfDay"
    /\ bgPc' = "allSkySleep"
    /\ UNCHANGED <<bgDoRaise, dayObs, currentDayObs, bgNow, lastRun, bgHeartbeater,
                   seqNums, quickLooks, sidecar, mdShards, missing, atEnum, ran,
                   raisedIn, remade, prodLog, finalized, lastEod, bgPasses>>
    /\ UNCHANGED notBG

\* runEndOfDay: sleep(allSkyDeletionExtraSleep), the deletions, the finally
\* clause; then the two heartbeats of run
BGEodCleanup ==
    /\ bgPc = "allSkySleep"
    /\ MayElapse(allSkyDeletionExtraSleep)
    /\ bgNow' = bgNow + allSkyDeletionExtraSleep
    /\ dayObs' = currentDayObs
    /\ lastEod' = "succeeded"
    /\ BGBeats(<<BeatRequest(bgNow', None), BeatRequest(bgNow', None)>>)
    /\ bgPc' = "loop"
    /\ UNCHANGED <<bgDoRaise, currentDayObs, lastRun, seqNums, quickLooks, sidecar,
                   mdShards, missing, atEnum, ran, raisedIn, remade, prodLog,
                   finalized, bgPasses>>
    /\ UNCHANGED passEnd
    /\ UNCHANGED notRun

\* runEndOfDay: a step raises: the except clause, without the finally clause
BGEodRaisesNoFinally ==
    /\ bgPc \in EodPcs
    /\ bgPc = "allSkySleep" => MayElapse(allSkyDeletionExtraSleep)
    /\ bgNow' = IF bgPc = "allSkySleep" THEN bgNow + allSkyDeletionExtraSleep
                ELSE bgNow
    /\ UNCHANGED dayObs
    /\ IF bgDoRaise
       THEN /\ bgPc' = "crashed"
            /\ lastEod' = "propagated"
            /\ UNCHANGED <<bgHeartbeater, requested>>
       ELSE /\ bgPc' = "loop"
            /\ lastEod' = "swallowed"
            /\ BGBeats(<<BeatRequest(bgNow', None), BeatRequest(bgNow', None)>>)
    /\ UNCHANGED <<bgDoRaise, currentDayObs, lastRun, seqNums, quickLooks, sidecar,
                   mdShards, missing, atEnum, ran, raisedIn, remade, prodLog,
                   finalized, bgPasses>>
    /\ UNCHANGED passEnd
    /\ UNCHANGED notRun

\* runEndOfDay: a step raises: raiseIf(self.doRaise, e, self.log), then the
\* finally clause; a swallowed error is followed by the two heartbeats of
\* run, a re-raised one leaves run() through its own raiseIf
BGEodRaises ==
    /\ bgPc \in EodPcs
    /\ bgPc = "allSkySleep" => MayElapse(allSkyDeletionExtraSleep)
    /\ bgNow' = IF bgPc = "allSkySleep" THEN bgNow + allSkyDeletionExtraSleep
                ELSE bgNow
    /\ dayObs' = currentDayObs
    /\ IF bgDoRaise
       THEN /\ bgPc' = "crashed"
            /\ lastEod' = "propagated"
            /\ UNCHANGED <<bgHeartbeater, requested>>
       ELSE /\ bgPc' = "loop"
            /\ lastEod' = "swallowed"
            /\ BGBeats(<<BeatRequest(bgNow', None), BeatRequest(bgNow', None)>>)
    /\ UNCHANGED <<bgDoRaise, currentDayObs, lastRun, seqNums, quickLooks, sidecar,
                   mdShards, missing, atEnum, ran, raisedIn, remade, prodLog,
                   finalized, bgPasses>>
    /\ UNCHANGED passEnd
    /\ UNCHANGED notRun

\* the external day advances
BGDayRolls ==
    /\ currentDayObs < FirstDayObs + MaxRollovers
    /\ currentDayObs' = currentDayObs + 1
    /\ UNCHANGED <<bgPc, bgDoRaise, dayObs, bgNow, lastRun, bgHeartbeater, seqNums,
                   quickLooks, sidecar, mdShards, missing, atEnum, ran, raisedIn,
                   remade, prodLog, finalized, lastEod, bgPasses>>
    /\ UNCHANGED notBG

\* RubinTvBackgroundService.__init__ and the first two statements of run
InitBG ==
    /\ bgPc = "loop"
    /\ bgDoRaise \in BOOLEAN
    /\ dayObs = FirstDayObs
    /\ currentDayObs = FirstDayObs
    /\ bgNow = StartTime
    /\ lastRun = StartTime
    /\ bgHeartbeater = HeartbeaterInit(BG_HEARTBEAT_UPLOAD_PERIOD,
                                       BG_HEARTBEAT_FLATLINE_PERIOD)
    /\ seqNums = [d \in Days |-> IF d = FirstDayObs THEN SeqNums ELSE {}]
    /\ quickLooks = [d \in Days |-> IF d = FirstDayObs THEN {1} ELSE {}]
    /\ sidecar = [d \in Days |-> IF d = FirstDayObs THEN Some({1}) ELSE None]
    /\ mdShards = {}
    /\ missing = <<>>
    /\ atEnum = [present |-> {}, upstream |-> {}]
    /\ ran = <<>>
    /\ raisedIn = {}
    /\ remade = {}
    /\ prodLog = {}
    /\ finalized = <<>>
    /\ lastEod = "none"
    /\ bgPasses = 0

NextBG ==
    \/ BGLoopSleep
    \/ BGLoopCatchup
    \/ \E k \in 1..Len(Components) : CURaises(k)
    \/ CUMetadataEnum
    \/ CUMetadataShard
    \/ CUMetadataDone
    \/ CUIsrEnum
    \/ CUIsrSleep
    \/ CUIsrProduce
    \/ CUIsrDone
    \/ \E k \in 1..Len(Components) : CURemakeDay(k)
    \/ BGAfterCatchup
    \/ BGEndOfDayDelay
    \/ BGEodMovie
    \/ BGEodCleanup
    \/ BGEodRaises
    \/ BGDayRolls

-----------------------------------------------------------------------------
(* The merge of a shard into a canonical record, the body of the loop of   *)
(* mergeShardsAndUpload (rubinTv.py), on its own.                          *)

\* the sequence numbers (rows) of the records
DictRows == {5, 7}

\* the columns (fields) of a row
DictFields == {"a", "b"}

\* the values of a field
FieldValues == {1, 2}

\* the rows over DictFields
RowDicts == UNION {[F -> FieldValues] : F \in SUBSET DictFields}

\* the json dicts {seqNum: {column: value}} over DictRows
Dicts == UNION {[Rs -> RowDicts] : Rs \in SUBSET DictRows}

\* the body of the loop for one shard: data is merged with the shard
DCMerge ==
    /\ \E shard \in Dicts :
          /\ canonical' = (IF shard # EmptyDict THEN MergeShard(canonical, shard)
                           ELSE canonical)
          /\ shardIn' = shard
    /\ before' = canonical
    /\ UNCHANGED notDC

\* data as loaded from any main file
InitDC ==
    /\ canonical \in Dicts
    /\ shardIn = EmptyDict
    /\ before = canonical

NextDC == DCMerge

-----------------------------------------------------------------------------
(* Heartbeater.beat called by any caller at any time (rubinTv.py).         *)

\* the customFlatlinePeriod arguments tried: absent, 0 and twenty minutes
CustomPeriods == {None, Some(0), Some(1200)}

\* the seconds that pass between two calls of beat
HbSteps == {10, 30}

\* beater.beat(ensure, customFlatlinePeriod); the upload succeeds or fails
HBBeat ==
    /\ Len(beats) < MaxBeats
    /\ \E ensure \in BOOLEAN, custom \in CustomPeriods, ok \in BOOLEAN :
          /\ beater' = Beat(beater, hbNow, ensure, custom, ok)
          /\ beats' = Append(beats,
                [t |-> hbNow, ensure |-> ensure, custom |-> custom,
                 outcome |-> BeatOutcome(beater, hbNow, ensure, custom, ok),
                 lastBefore |-> beater.lastUpload,
                 lastAfter |-> beater'.lastUpload,
                 bucket |-> beater'.uploaded])
    /\ UNCHANGED hbNow
    /\ UNCHANGED notHB

\* time passes in the caller
HBTick ==
    /\ \E d \in HbSteps :
          /\ hbNow + d <= StartTime + MaxHbElapsed
          /\ hbNow' = hbNow + d
    /\ UNCHANGED <<beater, beats>>
    /\ UNCHANGED notHB

\* Heartbeater.__init__, no beat yet
InitHB ==
    /\ beater = HeartbeaterInit(HEARTBEAT_UPLOAD_PERIOD, HEARTBEAT_FLATLINE_PERIOD)
    /\ hbNow = StartTime
    /\ beats = <<>>

NextHB ==
    \/ HBBeat
    \/ HBTick

-----------------------------------------------------------------------------
(* Uploader.googleUpload and Uploader.uploadPerSeqNumPlot (rubinTv.py).    *)

\* channels.CHANNELS
CHANNELS ==
    {"summit_imexam", "summit_specexam", "auxtel_mount_torques",
     "auxtel_monitor", "all_sky_current", "all_sky_movies", "auxtel_metadata",
     "auxtel_metadata_creator", "auxtel_movies", "auxtel_isr_runner",
     "auxtel_night_reports", "startracker_night_reports", "startracker_raw",
     "startracker_wide_raw", "startracker_fast_raw", "startracker_analysis",
     "startracker_wide_analysis", "startracker_fast_analysis",
     "startracker_metadata", "ts8_noise_map", "ts8_focal_plane_mosaic",
     "ts8_metadata", "comcam_noise_map", "comcam_focal_plane_mosaic",
     "comcam_metadata", "slac_lsstcam_noise_map",
     "slac_lsstcam_focal_plane_mosaic", "slac_lsstcam_metadata",
     "tma_mount_motion_profile", "tma_metadata"}

\* the channel arguments tried: a registered channel and one that is not
ChannelArgs == {"auxtel_metadata", "auxtel_metadta"}

\* channel.replace('_', '-') of the channel arguments tried
PlotPrefix(channel) ==
    CASE channel = "auxtel_metadata" -> "auxtel-metadata"
      [] channel = "auxtel_metadta" -> "auxtel-metadta"
      [] OTHER -> ""

\* finalName = "/".join([channel, uploadAsFilename]) of googleUpload
FinalName(channel, uploadAsFilename) ==
    [channel |-> channel, file |-> <<uploadAsFilename>>]

\* uploadAs of uploadPerSeqNumPlot:
\* f"{channel}/{plotPrefix}_dayObs_{dayObsStr}_seqNum_{seqNumInt}.png"
UploadAs(channel, dayObsInt, seqNumInt) ==
    [channel |-> channel, file |-> <<PlotPrefix(channel), dayObsInt, seqNumInt>>]

\* a call that creates the blob first and looks at the channel afterwards
UPEnterChecksLate(method, channel, name, isLiveFile) ==
    IF channel \notin CHANNELS
    THEN /\ upBlobs' = upBlobs \cup {[name |-> name, noStore |-> isLiveFile]}
         /\ upLog' = Append(upLog, [method |-> method, channel |-> channel,
                                    result |-> "ValueError", checked |-> TRUE,
                                    blobbed |-> TRUE, attempts |-> 0])
         /\ UNCHANGED <<upPc, upCur, upObjects>>
    ELSE /\ upCur' = Some([method |-> method, channel |-> channel, name |-> name,
                           isLiveFile |-> isLiveFile, checked |-> TRUE,
                           attempts |-> 0])
         /\ upPc' = "blob"
         /\ UNCHANGED <<upBlobs, upObjects, upLog>>

\* "if channel not in CHANNELS: raise ValueError", or the call goes on to
\* create the blob called name
UPEnter(method, channel, name, isLiveFile) ==
    IF channel \notin CHANNELS
    THEN /\ upLog' = Append(upLog, [method |-> method, channel |-> channel,
                                    result |-> "ValueError", checked |-> TRUE,
                                    blobbed |-> FALSE, attempts |-> 0])
         /\ UNCHANGED <<upPc, upCur, upBlobs, upObjects>>
    ELSE /\ upCur' = Some([method |-> method, channel |-> channel, name |-> name,
                           isLiveFile |-> isLiveFile, checked |-> TRUE,
                           attempts |-> 0])
         /\ upPc' = "blob"
         /\ UNCHANGED <<upBlobs, upObjects, upLog>>

\* googleUpload(channel, sourceFilename, isLiveFile=...) is called
UPGoogleUpload ==
    /\ upPc = "idle"
    /\ Len(upLog) < MaxUploads
    /\ \E channel \in ChannelArgs, isLiveFile \in BOOLEAN :
          UPEnter("googleUpload", channel, FinalName(channel, "file.json"), isLiveFile)
    /\ UNCHANGED notUP

\* uploadPerSeqNumPlot(channel, dayObsInt, seqNumInt, filename, ...) is called
UPPerSeqNumPlot ==
    /\ upPc = "idle"
    /\ Len(upLog) < MaxUploads
    /\ \E channel \in ChannelArgs, isLiveFile \in BOOLEAN :
          UPEnter("uploadPerSeqNumPlot", channel,
                  UploadAs(channel, FirstDayObs, 1), isLiveFile)
    /\ UNCHANGED notUP

\* Uploader.HEARTBEAT_PREFIX
HEARTBEAT_PREFIX == "heartbeats"

\* RubinTvBackgroundService.HEARTBEAT_HANDLE
HEARTBEAT_HANDLE == "backgroundService"

\* the handles of the Heartbeaters: the background service's and a watcher's
\* heartbeatChannelName
HeartbeatHandles == {HEARTBEAT_HANDLE, "auxtel_metadata"}

\* filename = "/".join([self.HEARTBEAT_PREFIX, channel]) + ".json"
HeartbeatName(channel) == [channel |-> HEARTBEAT_PREFIX, file |-> <<channel>>]

\* uploadHeartbeat(channel, flatlinePeriod) is called: the record is built
\* and the call goes on to create the blob, the channel is not looked at
UPHeartbeat ==
    /\ upPc = "idle"
    /\ Len(upLog) < MaxUploads
    /\ \E channel \in HeartbeatHandles :
          upCur' = Some([method |-> "uploadHeartbeat", channel |-> channel,
                         name |-> HeartbeatName(channel), isLiveFile |-> TRUE,
                         checked |-> FALSE, attempts |-> 0])
    /\ upPc' = "blob"
    /\ UNCHANGED <<upBlobs, upObjects, upLog>>
    /\ UNCHANGED notUP

\* blob = self.bucket.blob(name); if isLiveFile: cache_control = 'no-store'
UPBlob ==
    /\ upPc = "blob"
    /\ upBlobs' = upBlobs \cup {[name |-> Get(upCur).name,
                                noStore |-> Get(upCur).isLiveFile]}
    /\ upPc' = "upload"
    /\ UNCHANGED <<upCur, upObjects, upLog>>
    /\ UNCHANGED notUP

\* an attempt of blob.upload_from_filename fails and the retry strategy
\* makes another
UPUploadRetry ==
    /\ upPc = "upload"
    /\ Get(upCur).attempts + 1 < MaxAttempts
    /\ upCur' = Some([Get(upCur) EXCEPT !.attempts = @ + 1])
    /\ UNCHANGED <<upPc, upBlobs, upObjects, upLog>>
    /\ UNCHANGED notUP

\* the end of the current call with the given result
UPReturn(result) ==
    /\ upLog' = Append(upLog, [method |-> Get(upCur).method,
                               channel |-> Get(upCur).channel,
                               result |-> result,
                               checked |-> Get(upCur).checked, blobbed |-> TRUE,
                               attempts |-> Get(upCur).attempts + 1])
    /\ upCur' = None
    /\ upPc' = "idle"

\* the upload succeeds: "return blob", "return True" in uploadHeartbeat
UPUploadOk ==
    /\ upPc = "upload"
    /\ upObjects' = upObjects \cup {Get(upCur).name}
    /\ UPReturn(IF Get(upCur).method = "uploadHeartbeat" THEN "True" ELSE "blob")
    /\ UNCHANGED upBlobs
    /\ UNCHANGED notUP

\* an upload whose exception is not caught: the call raises to its caller
UPUploadFailsPropagates ==
    /\ upPc = "upload"
    /\ UPReturn("raised")
    /\ UNCHANGED <<upBlobs, upObjects>>
    /\ UNCHANGED notUP

\* the upload raises: the warning is logged and "return None", "return
\* False" in uploadHeartbeat
UPUploadFails ==
    /\ upPc = "upload"
    /\ UPReturn(IF Get(upCur).method = "uploadHeartbeat" THEN "False" ELSE "None")
    /\ UNCHANGED <<upBlobs, upObjects>>
    /\ UNCHANGED notUP

\* Uploader.__init__: a client and a bucket, nothing created or uploaded
InitUP ==
    /\ upPc = "idle"
    /\ upCur = None
    /\ upBlobs = {}
    /\ upObjects = {}
    /\ upLog = <<>>

NextUP ==
    \/ UPGoogleUpload
    \/ UPPerSeqNumPlot
    \/ UPHeartbeat
    \/ UPBlob
    \/ UPUploadRetry
    \/ UPUploadOk
    \/ UPUploadFails

-----------------------------------------------------------------------------
(* _waitForDataProduct (rubinTv.py).  Times are in eighths of a second.    *)

\* cadence = 0.25
waitCadence == 2

\* a number of loops that rounds maxTime / cadence up
MaxLoopsRoundedUp(maxTime) == (maxTime + waitCadence - 1) \div waitCadence

\* maxLoops = int(maxTime//cadence)
MaxLoops(maxTime) == maxTime \div waitCadence

\* _waitForDataProduct(butler, dataProduct, dataId, logger, maxTime) is
\* called for a dataId whose dataset may or may not have landed
WTCall ==
    /\ wPc \in {"idle", "returned"}
    /\ \E maxTime \in 0..MaxWaitTime : wMaxTime' = maxTime
    /\ wExists' \in BOOLEAN
    /\ wRetry' = 0
    /\ wResult' = "pending"
    /\ wSeen' = <<>>
    /\ wSlept' = 0
    /\ wWarned' = FALSE
    /\ wPc' = "loop"
    /\ UNCHANGED notWT

\* "for retry in range(maxLoops): if butlerUtils.datasetExists(...):
\* return butler.get(dataProduct, dataId)"
WTPoll ==
    /\ wPc = "loop"
    /\ wRetry < MaxLoops(wMaxTime)
    /\ wSeen' = Append(wSeen, wExists)
    /\ IF wExists
       THEN /\ wResult' = "product"
            /\ wPc' = "returned"
       ELSE /\ wResult' = wResult
            /\ wPc' = "sleep"
    /\ UNCHANGED <<wMaxTime, wRetry, wExists, wSlept, wWarned>>
    /\ UNCHANGED notWT

\* "else: sleep(cadence)", then the next retry
WTSleep ==
    /\ wPc = "sleep"
    /\ wSlept' = wSlept + waitCadence
    /\ wRetry' = wRetry + 1
    /\ wPc' = "loop"
    /\ UNCHANGED <<wMaxTime, wExists, wResult, wSeen, wWarned>>
    /\ UNCHANGED notWT

\* the loop is exhausted: logger.warning(...); return None
WTTimeout ==
    /\ wPc = "loop"
    /\ wRetry >= MaxLoops(wMaxTime)
    /\ wWarned' = TRUE
    /\ wResult' = "None"
    /\ wPc' = "returned"
    /\ UNCHANGED <<wMaxTime, wRetry, wExists, wSeen, wSlept>>
    /\ UNCHANGED notWT

\* the dataset lands in the repository
WTLands ==
    /\ ~wExists
    /\ wExists' = TRUE
    /\ UNCHANGED <<wPc, wMaxTime, wRetry, wResult, wSeen, wSlept, wWarned>>
    /\ UNCHANGED notWT

\* no call of _waitForDataProduct has been made
InitWT ==
    /\ wPc = "idle"
    /\ wMaxTime = 0
    /\ wRetry = 0
    /\ wExists \in BOOLEAN
    /\ wResult = "pending"
    /\ wSeen = <<>>
    /\ wSlept = 0
    /\ wWarned = FALSE

NextWT ==
    \/ WTCall
    \/ WTPoll
    \/ WTSleep
    \/ WTTimeout
    \/ WTLands

-----------------------------------------------------------------------------
(* utils.isDayObsContiguous, as tests/test_utils.py uses it.               *)

\* the year, month and day of a dayObs YYYYMMDD
YearOf(d) == d \div 10000
MonthOf(d) == (d \div 100) % 100
DayOf(d) == d % 100

IsLeapYear(y) == (y % 4 = 0 /\ y % 100 # 0) \/ y % 400 = 0

DaysInMonth(y, m) ==
    IF m = 2 THEN (IF IsLeapYear(y) THEN 29 ELSE 28)
    ELSE IF m \in {4, 6, 9, 11} THEN 30 ELSE 31

\* is the integer a dayObs, the YYYYMMDD of a calendar day
IsDayObs(d) ==
    /\ MonthOf(d) \in 1..12
    /\ DayOf(d) \in 1..DaysInMonth(YearOf(d), MonthOf(d))

\* the days between 1 January 2022 and the first of the month, of the year
RECURSIVE DaysBeforeMonth(_, _)
DaysBeforeMonth(y, m) ==
    IF m <= 1 THEN 0 ELSE DaysBeforeMonth(y, m - 1) + DaysInMonth(y, m - 1)

RECURSIVE DaysBeforeYear(_)
DaysBeforeYear(y) ==
    IF y <= 2022 THEN 0
    ELSE DaysBeforeYear(y - 1) + (IF IsLeapYear(y - 1) THEN 366 ELSE 365)

\* the calendar day of a dayObs, as a number of days
ToDate(d) ==
    DaysBeforeYear(YearOf(d)) + DaysBeforeMonth(YearOf(d), MonthOf(d)) + DayOf(d)

\* a test of the two numbers themselves: they differ by one
isDayObsContiguousByNumber(day, otherDay) ==
    otherDay - day \in {1, -1}

\* isDayObsContiguous(dayObs, otherDayObs): the two days are one day apart
isDayObsContiguous(day, otherDay) ==
    ToDate(otherDay) - ToDate(day) \in {1, -1}

\* the dayObs values the function is called with
DayObsValues ==
    {d \in 20220928..(20221001 + DayObsSpan) : IsDayObs(d)}
       \cup {20221231, 20230101, 20240228, 20240229, 20240301}

\* a call of isDayObsContiguous
DYCall ==
    /\ \E a \in DayObsValues, b \in DayObsValues :
          /\ dyA' = a
          /\ dyB' = b
          /\ dyResult' = isDayObsContiguous(a, b)
    /\ UNCHANGED notDY

\* the first call of the test
InitDY ==
    /\ dyA = 20220930
    /\ dyB = 20221001
    /\ dyResult = isDayObsContiguous(dyA, dyB)

NextDY ==
    \/ DYCall

-----------------------------------------------------------------------------
(* RubinTvBackgroundService._makeMinimalDataId (catchupService.py).        *)

\* keys = ['day_obs', 'seq_num', 'detector']
MinimalKeys == {"day_obs", "seq_num", "detector"}

\* the keys a dataId may have
DataIdKeys == MinimalKeys \cup {"exposure", "instrument"}

\* the dataIds: dicts with some of the keys
DataIds == UNION {[keys -> 1..MaxFieldValue] : keys \in SUBSET DataIdKeys}

\* what a call gives: a returned dict, or the ValueError it raised
Returned(value) == [raised |-> "", value |-> value]
Raised(error) == [raised |-> error, value |-> <<>>]

\* a minimisation that checks the keys and returns the dataId as it is
makeMinimalDataIdKeepsAll(dataId) ==
    IF \E key \in MinimalKeys : key \notin DOMAIN dataId
    THEN Raised("ValueError")
    ELSE Returned(dataId)

\* _makeMinimalDataId(dataId)
makeMinimalDataId(dataId) ==
    IF \E key \in MinimalKeys : key \notin DOMAIN dataId
    THEN Raised("ValueError")
    ELSE Returned([key \in MinimalKeys |-> dataId[key]])

\* a call of _makeMinimalDataId
MNCall ==
    /\ \E dataId \in DataIds :
          /\ mnDataId' = dataId
          /\ mnResult' = makeMinimalDataId(dataId)
    /\ UNCHANGED notMN

\* the first call, with the dataId of the catchup routines
InitMN ==
    /\ mnDataId = [key \in MinimalKeys |-> 1]
    /\ mnResult = makeMinimalDataId(mnDataId)

NextMN ==
    \/ MNCall

-----------------------------------------------------------------------------
(* The specifications: one component runs, the others are parked.          *)

\* the FileWatcher's variables while another component is checked
ParkedFW ==
    /\ markers = {}
    /\ fwPc = "off"
    /\ lastFound = None
    /\ doRaise = FALSE
    /\ heartbeater = None
    /\ now = StartTime
    /\ calls = <<>>
    /\ lastStep = "init"
    /\ lastBeat = "none"
    /\ removed = FALSE
    /\ skipped = {}

\* the ButlerWatcher's variables while another component is checked
ParkedBW ==
    /\ registry = [product \in dataProducts |-> {}]
    /\ dataIdFiles = [product \in dataProducts |-> {}]
    /\ shardedData = {}
    /\ bwPc = "off"
    /\ bwDoRaise = FALSE
    /\ lastWrittenIds = [product \in dataProducts |-> None]
    /\ found = <<>>
    /\ coldStart = [product \in dataProducts |-> None]
    /\ bwCycles = 0
    /\ bwLast = [found |-> {}, purged |-> None, written |-> {}, removed |-> {}]

\* the mergers' variables while another component is checked
ParkedMG ==
    /\ shardsDir = {}
    /\ mainFiles = [dObs \in DayObss |-> None]
    /\ bucket = [dObs \in DayObss |-> None]
    /\ mPc = [m \in Mergers |-> "off"]
    /\ shardFiles = [m \in Mergers |-> <<>>]
    /\ data = [m \in Mergers |-> EmptyDict]
    /\ filesTouched = [m \in Mergers |-> {}]
    /\ written = {}
    /\ mRemoved = [m \in Mergers |-> {}]
    /\ active = {}
    /\ faulted = FALSE
    /\ writable = {}
    /\ listed = [m \in Mergers |-> {}]
    /\ late = [m \in Mergers |-> {}]
    /\ uploadLog = [m \in Mergers |-> <<>>]
    /\ lastPass = [m \in Mergers |-> "none"]

\* the background service's variables while another component is checked
ParkedBG ==
    /\ bgPc = "off"
    /\ bgDoRaise = FALSE
    /\ dayObs = FirstDayObs
    /\ currentDayObs = FirstDayObs
    /\ bgNow = StartTime
    /\ lastRun = StartTime
    /\ bgHeartbeater = HeartbeaterInit(BG_HEARTBEAT_UPLOAD_PERIOD,
                                       BG_HEARTBEAT_FLATLINE_PERIOD)
    /\ seqNums = [d \in Days |-> {}]
    /\ quickLooks = [d \in Days |-> {}]
    /\ sidecar = [d \in Days |-> None]
    /\ mdShards = {}
    /\ missing = <<>>
    /\ atEnum = [present |-> {}, upstream |-> {}]
    /\ ran = <<>>
    /\ raisedIn = {}
    /\ remade = {}
    /\ prodLog = {}
    /\ finalized = <<>>
    /\ lastEod = "none"
    /\ bgPasses = 0

\* the single record while another component is checked
ParkedDC ==
    /\ canonical = EmptyDict
    /\ shardIn = EmptyDict
    /\ before = EmptyDict

\* the Heartbeater of the caller while another component is checked
ParkedHB ==
    /\ beater = HeartbeaterInit(HEARTBEAT_UPLOAD_PERIOD, HEARTBEAT_FLATLINE_PERIOD)
    /\ hbNow = StartTime
    /\ beats = <<>>

\* the Uploader while another component is checked
ParkedUP ==
    /\ upPc = "idle"
    /\ upCur = None
    /\ upBlobs = {}
    /\ upObjects = {}
    /\ upLog = <<>>

\* no heartbeat asked for while another component is checked
ParkedRQ ==
    requested = <<>>

\* _waitForDataProduct's variables while another component is checked
ParkedWT ==
    /\ wPc = "idle"
    /\ wMaxTime = 0
    /\ wRetry = 0
    /\ wExists = FALSE
    /\ wResult = "pending"
    /\ wSeen = <<>>
    /\ wSlept = 0
    /\ wWarned = FALSE

\* isDayObsContiguous's variables while another component is checked
ParkedDY ==
    /\ dyA = 20220930
    /\ dyB = 20221001
    /\ dyResult = TRUE

\* the time run() started, which counts as the end of a pass for the first one
ParkedPE ==
    passEnd = StartTime

\* _makeMinimalDataId's variables while another component is checked
ParkedMN ==
    /\ mnDataId = <<>>
    /\ mnResult = Raised("ValueError")

\* nothing has been uploaded to the metadata channel
ParkedMU ==
    /\ mdUploads = {}

\* no merge pass has listed the shards
ParkedML ==
    /\ mainAtList = [m \in Mergers |-> [dObs \in DayObss |-> None]]

InitSpecFW == InitFW /\ ParkedBW /\ ParkedMG /\ ParkedBG /\ ParkedDC /\ ParkedHB /\ ParkedUP /\ ParkedRQ /\ ParkedWT /\ ParkedDY /\ ParkedPE /\ ParkedMN /\ ParkedMU /\ ParkedML

SpecFW == InitSpecFW /\ [][NextFW]_vars

InitSpecFWLive == InitFWLive /\ ParkedBW /\ ParkedMG /\ ParkedBG /\ ParkedDC /\ ParkedHB /\ ParkedUP /\ ParkedRQ /\ ParkedWT /\ ParkedDY /\ ParkedPE /\ ParkedMN /\ ParkedMU /\ ParkedML

\* the run loop goes on: a marker that is there is read in the end, and a
\* callback that was called returns or raises
SpecFWLive ==
    /\ InitSpecFWLive
    /\ [][NextFWLive]_vars
    /\ WF_vars(FWFound)
    /\ WF_vars(FWCallbackReturns \/ FWCallbackRaises)

InitSpecBW == InitBW /\ ParkedFW /\ ParkedMG /\ ParkedBG /\ ParkedDC /\ ParkedHB /\ ParkedUP /\ ParkedRQ /\ ParkedWT /\ ParkedDY /\ ParkedPE /\ ParkedMN /\ ParkedMU /\ ParkedML

SpecBW == InitSpecBW /\ [][NextBW]_vars

InitSpecMerge == InitMG /\ ParkedFW /\ ParkedBW /\ ParkedBG /\ ParkedDC /\ ParkedHB /\ ParkedUP /\ ParkedRQ /\ ParkedWT /\ ParkedDY /\ ParkedPE /\ ParkedMN /\ ParkedMU /\ ParkedML

SpecMerge == InitSpecMerge /\ [][NextMG]_vars

InitSpecMergeOne == InitMGOne /\ ParkedFW /\ ParkedBW /\ ParkedBG /\ ParkedDC /\ ParkedHB /\ ParkedUP /\ ParkedRQ /\ ParkedWT /\ ParkedDY /\ ParkedPE /\ ParkedMN /\ ParkedMU /\ ParkedML

SpecMergeOne == InitSpecMergeOne /\ [][NextMG]_vars

InitSpecCatchup == InitCU /\ ParkedFW /\ ParkedBW /\ ParkedMG /\ ParkedDC /\ ParkedHB /\ ParkedUP /\ ParkedRQ /\ ParkedWT /\ ParkedDY /\ ParkedPE /\ ParkedMN /\ ParkedMU /\ ParkedML

SpecCatchup == InitSpecCatchup /\ [][NextCU]_vars

InitSpecBG == InitBG /\ ParkedFW /\ ParkedBW /\ ParkedMG /\ ParkedDC /\ ParkedHB /\ ParkedUP /\ ParkedRQ /\ ParkedWT /\ ParkedDY /\ ParkedPE /\ ParkedMN /\ ParkedMU /\ ParkedML

SpecBG == InitSpecBG /\ [][NextBG]_vars

InitSpecDict == InitDC /\ ParkedFW /\ ParkedBW /\ ParkedMG /\ ParkedBG /\ ParkedHB /\ ParkedUP /\ ParkedRQ /\ ParkedWT /\ ParkedDY /\ ParkedPE /\ ParkedMN /\ ParkedMU /\ ParkedML

SpecDict == InitSpecDict /\ [][NextDC]_vars

InitSpecHB == InitHB /\ ParkedFW /\ ParkedBW /\ ParkedMG /\ ParkedBG /\ ParkedDC /\ ParkedUP /\ ParkedRQ /\ ParkedWT /\ ParkedDY /\ ParkedPE /\ ParkedMN /\ ParkedMU /\ ParkedML

SpecHB == InitSpecHB /\ [][NextHB]_vars

InitSpecWait == InitWT /\ ParkedFW /\ ParkedBW /\ ParkedMG /\ ParkedBG /\ ParkedDC /\ ParkedHB /\ ParkedUP /\ ParkedRQ /\ ParkedDY /\ ParkedPE /\ ParkedMN /\ ParkedMU /\ ParkedML

SpecWait == InitSpecWait /\ [][NextWT]_vars

\* the steps of the function are taken when they can be: sleep returns and
\* the calls to the butler return
SpecWaitFair ==
    /\ InitSpecWait
    /\ [][NextWT]_vars
    /\ WF_vars(WTPoll)
    /\ WF_vars(WTSleep)
    /\ WF_vars(WTTimeout)

InitSpecDayObs == InitDY /\ ParkedFW /\ ParkedBW /\ ParkedMG /\ ParkedBG /\ ParkedDC /\ ParkedHB /\ ParkedUP /\ ParkedRQ /\ ParkedWT /\ ParkedPE /\ ParkedMN /\ ParkedMU /\ ParkedML

SpecDayObs == InitSpecDayObs /\ [][NextDY]_vars

InitSpecMinimal == InitMN /\ ParkedFW /\ ParkedBW /\ ParkedMG /\ ParkedBG /\ ParkedDC /\ ParkedHB /\ ParkedUP /\ ParkedRQ /\ ParkedWT /\ ParkedDY /\ ParkedPE /\ ParkedMU /\ ParkedML

SpecMinimal == InitSpecMinimal /\ [][NextMN]_vars

InitSpecCatchupMetadata == InitCM /\ ParkedFW /\ ParkedBW /\ ParkedMG /\ ParkedDC /\ ParkedHB /\ ParkedUP /\ ParkedRQ /\ ParkedWT /\ ParkedDY /\ ParkedPE /\ ParkedMN /\ ParkedMU /\ ParkedML

SpecCatchupMetadata == InitSpecCatchupMetadata /\ [][NextCM]_vars

InitSpecUploader == InitUP /\ ParkedFW /\ ParkedBW /\ ParkedMG /\ ParkedBG /\ ParkedDC /\ ParkedHB /\ ParkedRQ /\ ParkedWT /\ ParkedDY /\ ParkedPE /\ ParkedMN /\ ParkedMU /\ ParkedML

SpecUploader == InitSpecUploader /\ [][NextUP]_vars

-----------------------------------------------------------------------------
(* Claims about FileWatcher.run, checked under SpecFW.                     *)

\* the exposure id of the most recent marker file
MostRecentId == ParseInt(MostRecentFile(markers))

\* a step taken by the run loop (not by a writer of the marker directory)
FWStep == <<fwPc, lastFound, heartbeater, now, calls, lastStep, lastBeat>>' #
          <<fwPc, lastFound, heartbeater, now, calls, lastStep, lastBeat>>

\* C1: once the callback was invoked for a unit, a cycle that polls while
\* the most recent marker still is that unit (its id is lastFound) does not
\* invoke the callback: it only heartbeats, if a heartbeater is configured,
\* and sleeps one cadence.
C1_NoCallbackWhileSameMarker ==
    [][(/\ fwPc = "poll"
        /\ markers # {}
        /\ lastFound = Some(MostRecentId))
       => /\ calls' = calls
          /\ FWStep => /\ fwPc' = "poll"
                       /\ lastFound' = lastFound
                       /\ now' = now + cadence
                       /\ lastStep' = "idleSame"
                       /\ (heartbeater = None) = (lastBeat' = "none")
                       /\ (heartbeater = None) => (heartbeater' = None)]_vars

\* a unit was passed to the callback and a later cycle found it again
C1_Witness ==
    /\ lastStep = "idleSame"
    /\ Len(calls) >= 1
    /\ lastFound = Some(calls[Len(calls)].unit)
    /\ heartbeater # None

\* C5 as stated: over the lifetime of the run loop the callback is invoked
\* at most once for each exposure id, whatever happens to the directory.
C5_AtMostOncePerLifetime ==
    \A i, j \in 1..Len(calls) : i # j => calls[i].unit # calls[j].unit

\* C5 amended: as long as no marker file has been removed from the
\* directory, the callback is invoked at most once for each exposure id.
C5_AtMostOnceWhileMarkersOnlyAdded ==
    ~removed => C5_AtMostOncePerLifetime

\* two different units were processed while markers were only added
C5_Witness ==
    /\ ~removed
    /\ Len(calls) >= 2
    /\ calls[1].unit # calls[2].unit

\* C16 as stated: a cycle that finds a new marker hands the callback the
\* single most recent marker (first in reverse-sorted file name order), and
\* a marker passed over by such a cycle is never handed to the callback on
\* a later cycle, whatever happens to the directory.
C16_PassedOverNeverProcessed ==
    /\ [][Len(calls') # Len(calls) =>
            /\ markers # {}
            /\ calls' = Append(calls, [unit |-> MostRecentId, result |-> "running"])]_vars
    /\ [](\A k \in 1..Len(calls) : calls[k].unit \notin skipped)

\* C16 amended: the cycle hands the callback the single most recent marker,
\* and as long as no marker file has been removed from the directory a
\* marker passed over is never handed to the callback on a later cycle.
C16_PassedOverNeverProcessedWhileMarkersOnlyAdded ==
    /\ [][Len(calls') # Len(calls) =>
            /\ markers # {}
            /\ Len(calls') = Len(calls) + 1
            /\ calls'[Len(calls')].unit = MostRecentId
            /\ \A k \in 1..Len(calls) : calls'[k].unit = calls[k].unit]_vars
    /\ [](~removed => \A k \in 1..Len(calls) : calls[k].unit \notin skipped)

\* a burst of markers was passed over, and a later cycle processed a marker
\* written after the burst, while markers were only added
C16_Witness ==
    /\ ~removed
    /\ Len(calls) >= 2
    /\ skipped # {}
    /\ lastStep = "found"
    /\ \E m \in skipped : m \in markers /\ StrLess(Digits(m), Digits(calls[1].unit))

\* C8: in a cycle that finds a new unit no heartbeat is attempted between
\* the fetch and the return of the callback (so a hung callback sends none);
\* the heartbeat of the cycle is the one that follows the callback's return.
C8_NoHeartbeatBeforeCallbackReturns ==
    [][/\ fwPc' = "callback" => (heartbeater' = heartbeater /\ lastBeat' = "none")
       /\ (fwPc = "callback" /\ lastStep' = "returned" /\ heartbeater # None)
             => lastBeat' # "none"]_vars

\* a callback is running in a watcher that has a heartbeater
C8_Witness ==
    /\ fwPc = "callback"
    /\ heartbeater # None
    /\ Get(heartbeater).uploaded # None

\* C9: with doRaise = False an exception of the callback or of the poll
\* never ends the run loop: the loop is back at its poll, and a marker that
\* differs from lastFound is then passed to the callback.
C9_ExceptionDoesNotStopLoop ==
    ~doRaise =>
        /\ fwPc # "crashed"
        /\ lastStep \in {"raised", "pollRaised"} =>
              /\ fwPc = "poll"
              /\ (/\ markers # {}
                  /\ lastFound # Some(MostRecentId)
                  /\ Len(calls) < MaxCalls) => ENABLED FWFound

\* a callback raised and a newer marker was passed to the callback later
C9_Witness ==
    /\ ~doRaise
    /\ \E i, j \in 1..Len(calls) :
          /\ i < j
          /\ calls[i].result = "raised"
          /\ calls[j].unit # calls[i].unit
          /\ calls[j].result = "returned"

-----------------------------------------------------------------------------
(* Claims about ButlerWatcher.run, checked under SpecBW.                   *)

\* the first step of the first poll cycle of ButlerWatcher.run
BWFirstCycle ==
    /\ bwPc = "loop"
    /\ bwCycles = 0
    /\ bwCycles' = 1 \/ bwPc' = "write"

\* C3: when run() starts with a marker for unit U on disk for a product and
\* the latest upstream unit of that product still is U, the first poll cycle
\* finds nothing new for the product: its marker is not rewritten and, for
\* raw, no downstream data is purged.
C3_ColdStartFindsNothingNew ==
    [][BWFirstCycle =>
          \A product \in dataProducts :
             (/\ coldStart[product] # None
              /\ getLatestExpRecord(product) # None
              /\ Get(getLatestExpRecord(product)).id = Get(coldStart[product]))
             => /\ product \notin bwLast'.found
                /\ product = "raw" => bwLast'.purged = None]_vars

\* run() started with the marker of the latest raw exposure on disk
C3_Witness ==
    /\ bwPc = "loop"
    /\ bwCycles = 0
    /\ coldStart["raw"] # None
    /\ getLatestExpRecord("raw") # None
    /\ Get(getLatestExpRecord("raw")).id = Get(coldStart["raw"])

-----------------------------------------------------------------------------
(* Claims about mergeShardsAndUpload, checked under SpecMerge.             *)

\* the fields of shard i are in the persisted main file of its dayObs
Covered(i) ==
    /\ mainFiles[ShardDayObs(i)] # None
    /\ \A row \in DOMAIN ShardContent(i) :
          /\ row \in DOMAIN Get(mainFiles[ShardDayObs(i)])
          /\ DOMAIN ShardContent(i)[row] \subseteq
                DOMAIN Get(mainFiles[ShardDayObs(i)])[row]

\* C2: a shard file is deleted only after the main file that contains its
\* merged content has been written (so that after a crash at any step the
\* content is still in the shard file or already in the main file).
C2_ShardDeletedOnlyAfterWrite ==
    [][\A i \in Shards : (i \in shardsDir /\ i \notin shardsDir') => Covered(i)]_vars

\* a pass was killed after it removed a shard whose fields are in no file
C2_Witness ==
    /\ faulted
    /\ \E i \in written : i \notin shardsDir /\ ~Covered(i)
    /\ \A m \in Mergers : mPc[m] = "idle"
    /\ Cardinality(active) = 1

\* C10, second half: with a single merger no state is reachable in which a
\* shard file has been deleted while its fields are absent from the main file.
C10_SingleMergerLosesNothing ==
    Cardinality(active) <= 1 =>
        \A i \in written : i \in shardsDir \/ Covered(i)

\* C10, first half: two passes ran concurrently, none was cut short, every
\* shard file has been deleted and the fields of one are in no main file
C10_Witness ==
    /\ active = Mergers
    /\ ~faulted
    /\ \A m \in Mergers : mPc[m] = "idle"
    /\ shardsDir = {}
    /\ \E i \in written : ~Covered(i)

\* C10, second half between passes: a single merger whose passes were never
\* cut short has lost nothing whenever it is idle
C10_SingleMergerIdleLosesNothing ==
    (Cardinality(active) <= 1 /\ ~faulted /\ \A m \in Mergers : mPc[m] = "idle")
        => \A i \in written : i \in shardsDir \/ Covered(i)

-----------------------------------------------------------------------------
(* Claims about one merger and its writers, checked under SpecMergeOne.    *)

\* the shard files a pass still has to process
ToProcess(m) == {shardFiles[m][k] : k \in 1..Len(shardFiles[m])}

\* C11: a pass removes only shard files it listed; a shard written after the
\* listing stays in the directory and out of the work of the running pass;
\* when a later pass has completed (and no pass was ever cut short) every
\* shard written before its listing is merged and removed; a writer can
\* create a shard whatever the merger is doing.
C11_LateShardSurvivesThePass ==
    \A m \in Mergers :
       /\ mRemoved[m] \subseteq listed[m]
       /\ mPc[m] \notin {"idle", "off"} =>
             \A i \in late[m] : i \in shardsDir /\ i \notin ToProcess(m)
       /\ (mPc[m] = "idle" /\ lastPass[m] = "completed" /\ ~faulted) =>
             \A i \in written \ late[m] : i \notin shardsDir /\ Covered(i)
       /\ writable \ written # {} => ENABLED MWriteShard

\* a pass that removed a shard is about to upload while a shard written
\* after its listing waits in the directory
C11_Witness ==
    \E m \in Mergers :
       /\ mPc[m] = "upload"
       /\ mRemoved[m] # {}
       /\ late[m] # {}
       /\ late[m] \subseteq shardsDir
       /\ ~faulted

\* C13: when a merger's last call has completed and no shard has been
\* written since that call listed the directory, anything the merger does
\* next (a second call) changes no main file, no shard file and nothing in
\* the bucket, makes no googleUpload call and is over at once.
C13_SecondCallChangesNothing ==
    [][\A m \in Mergers :
          (/\ mPc[m] = "idle"
           /\ lastPass[m] = "completed"
           /\ late[m] = {}
           /\ written' = written)
          => /\ mainFiles' = mainFiles
             /\ bucket' = bucket
             /\ shardsDir' = shardsDir
             /\ mPc'[m] = "idle"
             /\ uploadLog'[m] = <<>>
             /\ lastPass'[m] = "completed"]_vars

\* a first call has merged every shard ever written and a second call, with
\* no shard written in between, has listed nothing and uploaded nothing
C13_Witness ==
    \E m \in Mergers :
       /\ mPc[m] = "idle"
       /\ lastPass[m] = "completed"
       /\ late[m] = {}
       /\ listed[m] = {}
       /\ uploadLog[m] = <<>>
       /\ written = writable
       /\ shardsDir = {}
       /\ \A i \in written : Covered(i)

\* C14: when a call has completed, every shard file it listed is gone from
\* the shard directory and its rows and fields are in the main file of the
\* dayObs of its file name; they are in no main file of another dayObs.
C14_ListedShardsMergedIntoTheirDayObs ==
    \A m \in Mergers :
       /\ (mPc[m] = "idle" /\ lastPass[m] = "completed") =>
             \A i \in listed[m] : i \notin shardsDir /\ Covered(i)
       /\ \A i \in written : \A d \in DayObss \ {ShardDayObs(i)} :
             mainFiles[d] # None =>
                \A row \in DOMAIN ShardContent(i) :
                   row \notin DOMAIN Get(mainFiles[d])

\* a completed call had listed shards of every dayObs
C14_Witness ==
    \E m \in Mergers :
       /\ mPc[m] = "idle"
       /\ lastPass[m] = "completed"
       /\ {ShardDayObs(i) : i \in listed[m]} = DayObss
       /\ \A d \in DayObss : mainFiles[d] # None

-----------------------------------------------------------------------------
(* Claims about the merge of one shard, checked under SpecDict.            *)

\* C12: after a shard is merged the record has the rows of both; a row of
\* the shard that the record had keeps its fields, except that the fields of
\* the shard take the shard's values; a row only in the shard is added as it
\* is; a row not in the shard is unchanged.  {5:{a:1}} then {5:{b:2}} then
\* {5:{a:9}} merged into an empty record give {5:{a:9,b:2}}.
C12_MergeIsPerRowFieldUpdate ==
    /\ DOMAIN canonical = DOMAIN before \cup DOMAIN shardIn
    /\ \A row \in DOMAIN canonical :
          IF row \notin DOMAIN shardIn THEN canonical[row] = before[row]
          ELSE IF row \notin DOMAIN before THEN canonical[row] = shardIn[row]
          ELSE /\ DOMAIN canonical[row] =
                     DOMAIN before[row] \cup DOMAIN shardIn[row]
               /\ \A f \in DOMAIN canonical[row] :
                     canonical[row][f] = IF f \in DOMAIN shardIn[row]
                                         THEN shardIn[row][f]
                                         ELSE before[row][f]
    /\ MergeShard(MergeShard(EmptyDict, ShardContent(1)), ShardContent(2))
          = [row \in {5} |-> [a |-> 1, b |-> 2]]
    /\ MergeShard(MergeShard(MergeShard(EmptyDict, ShardContent(1)),
                             ShardContent(2)), ShardContent(3))
          = [row \in {5} |-> [a |-> 9, b |-> 2]]

\* a merge has overwritten one field of a row, kept the other field of that
\* row and added a row
C12_Witness ==
    /\ before = [row \in {5} |-> [a |-> 1, b |-> 2]]
    /\ shardIn = (5 :> [a |-> 2] @@ 7 :> [b |-> 1])
    /\ canonical = (5 :> [a |-> 2, b |-> 2] @@ 7 :> [b |-> 1])

-----------------------------------------------------------------------------
(* Claims about the catchup pass, checked under SpecCatchup.               *)

\* C4, as stated: the catchup routines never invoke production for a unit
\* whose quickLookExp or metadata row is in the store at the moment of the
\* call, also when the live path puts it there between the enumeration of
\* the gaps and the call.
C4_NoProductionForPresentUnit ==
    \A e \in prodLog : ~e.present

\* C4, amended: the catchup routines invoke production only for units whose
\* quickLookExp or metadata row was absent when the routine enumerated the
\* gaps.
C4_ProductionOnlyForUnitsAbsentAtEnumeration ==
    \A e \in prodLog : ~e.presentAtEnum

\* both routines have invoked production for a unit that was absent at the
\* enumeration and that the live path had produced by the time of the call
C4_Witness ==
    /\ \E e \in prodLog :
          e.routine = "catchupMetadata" /\ e.present /\ ~e.presentAtEnum
    /\ \E e \in prodLog :
          e.routine = "catchupIsrRunner" /\ e.present /\ ~e.presentAtEnum

\* C6: in a pass without doRaise the routines are called in the order of the
\* list, a routine that raises does not stop the pass: when runCatchup
\* returns all four have been called, every remakeDay routine that did not
\* raise has had its effect, and if catchupIsrRunner did not raise every
\* exposure it enumerated has its quickLookExp; runCatchup never ends with
\* an error.
C6_RaisingRoutineDoesNotStopThePass ==
    /\ \E k \in 0..Len(Components) : ran = SubSeq(Components, 1, k)
    /\ ~bgDoRaise => bgPc # "crashed"
    /\ (bgPc = "afterCatchup" /\ ~bgDoRaise) =>
          /\ ran = Components
          /\ \A k \in {3, 4} :
                Components[k] \notin raisedIn => Components[k] \in remade
          /\ "catchupIsrRunner" \notin raisedIn =>
                \A s \in atEnum.upstream : s \in quickLooks[dayObs]

\* a pass without doRaise has returned although its second routine raised:
\* the first wrote a shard and the last two remade their channels
C6_Witness ==
    /\ bgPc = "afterCatchup"
    /\ ~bgDoRaise
    /\ raisedIn = {"catchupIsrRunner"}
    /\ ran = Components
    /\ mdShards # {}
    /\ remade = {"catchupMonitor", "catchupMountTorques"}

-----------------------------------------------------------------------------
(* Claims about the rollover, checked under SpecBG.                        *)

\* C7: whenever runEndOfDay is left, after success, after a swallowed error
\* or with a re-raised error, dayObs is the current external day; the days
\* runEndOfDay has been entered for are therefore strictly increasing: no
\* day is finalized twice.
C7_DayObsAdvancesOnExit ==
    /\ [][(bgPc \in EodPcs /\ bgPc' \notin EodPcs) => dayObs' = currentDayObs']_vars
    /\ [](\A i, j \in 1..Len(finalized) : i < j => finalized[i] < finalized[j])

\* runEndOfDay has been entered twice, the second time its error was
\* swallowed, and the service is back in its loop with the current day
C7_Witness ==
    /\ Len(finalized) = 2
    /\ lastEod = "swallowed"
    /\ bgPc = "loop"
    /\ dayObs = currentDayObs

-----------------------------------------------------------------------------
(* Claims about Heartbeater.beat, checked under SpecHB.                    *)

\* a beat() call with ensure=False and no customFlatlinePeriod
Plain(b) == ~b.ensure /\ b.custom = None

\* the pairs of successive calls, both plain, less than uploadPeriod apart
QuickPlainPairs ==
    {i \in 1..(Len(beats) - 1) :
        /\ Plain(beats[i])
        /\ Plain(beats[i + 1])
        /\ beats[i + 1].t - beats[i].t < beater.uploadPeriod}

\* the number of calls of the pair starting at i with the given outcome
PairCount(i, outcome) ==
    Cardinality({j \in {i, i + 1} : beats[j].outcome = outcome})

\* C17 as stated: two beat() calls less than uploadPeriod apart, both with
\* ensure=False and no customFlatlinePeriod, result in exactly one upload.
C17_TwoQuickBeatsUploadExactlyOnce ==
    \A i \in QuickPlainPairs : PairCount(i, "uploaded") = 1

\* C17 amended: two such calls result in at most one successful upload; if
\* the first uploads, the second is suppressed (exactly one upload); if the
\* first is suppressed because of a recent upload, or its upload fails, the
\* second is decided anew by the time since the last successful upload.
C17_TwoQuickBeatsUploadAtMostOnce ==
    \A i \in QuickPlainPairs :
        /\ PairCount(i, "uploaded") <= 1
        /\ beats[i].outcome = "uploaded" => beats[i + 1].outcome = "suppressed"
        /\ beats[i].outcome # "uploaded" =>
              (beats[i + 1].outcome # "suppressed") =
              (beats[i + 1].t - beats[i].lastBefore >= beater.uploadPeriod)

\* two plain calls ten seconds apart: the first uploaded, the second did not
C17_Witness ==
    /\ Len(beats) >= 2
    /\ 1 \in QuickPlainPairs
    /\ beats[1].outcome = "uploaded"
    /\ beats[2].outcome = "suppressed"
    /\ beats[2].t > beats[1].t

\* C18 as stated: every call beat(customFlatlinePeriod=D) attempts a
\* heartbeat upload, for every value D and however recent the previous
\* successful upload is, and the record it uploads uses D as the flatline
\* period.
C18_CustomPeriodAlwaysUploads ==
    \A i \in 1..Len(beats) :
        beats[i].custom # None =>
            /\ beats[i].outcome # "suppressed"
            /\ beats[i].outcome = "uploaded" =>
                  beats[i].bucket =
                      Some(HeartbeatRecord(beats[i].t, Get(beats[i].custom)))

\* what the code does: the same for every D that Python takes as true
C18_TruthyCustomPeriodAlwaysUploads ==
    \A i \in 1..Len(beats) :
        IsSet(beats[i].custom) =>
            /\ beats[i].outcome # "suppressed"
            /\ beats[i].outcome = "uploaded" =>
                  beats[i].bucket =
                      Some(HeartbeatRecord(beats[i].t, Get(beats[i].custom)))

\* beat(customFlatlinePeriod=0) ten seconds after a successful upload was
\* suppressed
C18_Witness ==
    /\ Len(beats) >= 2
    /\ beats[1].outcome = "uploaded"
    /\ beats[2].custom = Some(0)
    /\ ~beats[2].ensure
    /\ beats[2].t - beats[1].t < beater.uploadPeriod
    /\ beats[2].outcome = "suppressed"

\* lastUpload is what the calls made so far left it
LastUploadFollowsBeats ==
    /\ beats = <<>> => beater.lastUpload = -1
    /\ beats # <<>> => beater.lastUpload = beats[Len(beats)].lastAfter
    /\ \A i \in 1..(Len(beats) - 1) : beats[i + 1].lastBefore = beats[i].lastAfter

\* lastUpload changes only on a successful upload, to the time of the call
LastUploadChangesOnlyOnSuccess ==
    /\ LastUploadFollowsBeats
    /\ \A i \in 1..Len(beats) :
          /\ beats[i].outcome = "uploaded" => beats[i].lastAfter = beats[i].t
          /\ beats[i].outcome # "uploaded" => beats[i].lastAfter = beats[i].lastBefore

\* C19 as stated: a failed upload leaves lastUpload unchanged, lastUpload
\* changes only on a successful upload, and the call that follows a failed
\* upload attempts the upload again, whatever its arguments.
C19_FailedUploadIsRetriedByNextBeat ==
    /\ LastUploadChangesOnlyOnSuccess
    /\ \A i \in 1..(Len(beats) - 1) :
          beats[i].outcome = "failed" => beats[i + 1].outcome # "suppressed"

\* C19 amended: a failed upload leaves lastUpload unchanged and lastUpload
\* changes only on a successful upload; the call that follows a failed
\* upload attempts again if the failed one was due by the time since the
\* last successful upload, and otherwise (the failed one was forced by
\* ensure or customFlatlinePeriod) only if it is itself due or forced.
C19_FailedDueUploadIsRetriedByNextBeat ==
    /\ LastUploadChangesOnlyOnSuccess
    /\ \A i \in 1..(Len(beats) - 1) :
          beats[i].outcome = "failed" =>
             /\ beats[i].t - beats[i].lastBefore >= beater.uploadPeriod
                   => beats[i + 1].outcome # "suppressed"
             /\ (beats[i + 1].outcome # "suppressed") =
                   \/ beats[i + 1].t - beats[i].lastBefore >= beater.uploadPeriod
                   \/ beats[i + 1].ensure
                   \/ IsSet(beats[i + 1].custom)

\* an upload that was due failed and a plain call ten seconds later tried
\* again, lastUpload still being what it was
C19_Witness ==
    /\ Len(beats) >= 2
    /\ beats[1].outcome = "failed"
    /\ Plain(beats[1])
    /\ Plain(beats[2])
    /\ beats[2].t - beats[1].t < beater.uploadPeriod
    /\ beats[2].t > beats[1].t
    /\ beats[2].outcome # "suppressed"
    /\ beats[1].lastAfter = -1

-----------------------------------------------------------------------------
(* Claims about the Uploader, checked under SpecUploader.                  *)

\* the two methods that upload a file
FileMethods == {"googleUpload", "uploadPerSeqNumPlot"}

\* C20: googleUpload and uploadPerSeqNumPlot called with a channel that is
\* not in CHANNELS raise ValueError before anything is done with the bucket:
\* no blob is created, no upload is attempted (so none is retried), nothing
\* of that channel ever is in the bucket, and the Uploader is left as it
\* was, idle and ready for the next call.
C20_UnknownChannelRaisesBeforeTheSink ==
    /\ [][(/\ Len(upLog') # Len(upLog)
           /\ upLog'[Len(upLog')].method \in FileMethods
           /\ upLog'[Len(upLog')].channel \notin CHANNELS)
            => /\ upLog'[Len(upLog')].result = "ValueError"
               /\ upPc = "idle" /\ upPc' = "idle"
               /\ UNCHANGED <<upCur, upBlobs, upObjects>>]_vars
    /\ [](/\ \A i \in 1..Len(upLog) :
               (upLog[i].method \in FileMethods /\ upLog[i].channel \notin CHANNELS)
                  => /\ upLog[i].result = "ValueError"
                     /\ ~upLog[i].blobbed
                     /\ upLog[i].attempts = 0
          /\ \A b \in upBlobs :
               b.name.channel # HEARTBEAT_PREFIX => b.name.channel \in CHANNELS
          /\ \A n \in upObjects :
               n.channel # HEARTBEAT_PREFIX => n.channel \in CHANNELS
          /\ (upCur # None /\ Get(upCur).method \in FileMethods)
                => Get(upCur).channel \in CHANNELS)

\* both methods raised ValueError for an unknown channel, and the call
\* after them uploaded its file
C20_Witness ==
    /\ Len(upLog) = 3
    /\ upLog[1].result = "ValueError" /\ upLog[1].method = "googleUpload"
    /\ upLog[2].result = "ValueError" /\ upLog[2].method = "uploadPerSeqNumPlot"
    /\ upLog[3].result = "blob"
    /\ Cardinality(upBlobs) = 1
    /\ Cardinality(upObjects) = 1

\* the calls that wrote an object to the bucket
Written == {i \in 1..Len(upLog) : upLog[i].result \in {"blob", "True"}}

\* C21 as stated: every object written to the bucket by an Uploader, file
\* uploads and heartbeat uploads alike, is written only after its channel
\* name was checked to be in CHANNELS.
C21_WrittenOnlyAfterChannelCheck ==
    \A i \in Written : upLog[i].checked /\ upLog[i].channel \in CHANNELS

\* what the code does: the file uploads are written only after the check
C21_FilesWrittenOnlyAfterChannelCheck ==
    \A i \in Written :
        upLog[i].method \in FileMethods =>
            upLog[i].checked /\ upLog[i].channel \in CHANNELS

\* the heartbeat of the background service is in the bucket, its handle
\* being no member of CHANNELS and never compared with it
C21_Witness ==
    /\ HEARTBEAT_HANDLE \notin CHANNELS
    /\ HeartbeatName(HEARTBEAT_HANDLE) \in upObjects
    /\ \E i \in Written : /\ upLog[i].method = "uploadHeartbeat"
                          /\ upLog[i].channel = HEARTBEAT_HANDLE
                          /\ ~upLog[i].checked

\* C22: for a channel in CHANNELS, googleUpload never propagates a failure
\* of the bucket to its caller: it returns the blob when the upload
\* succeeded and the object is in the bucket, and None when the upload
\* raised, after which the Uploader is idle and takes the next call.
C22_SinkFailureIsNotPropagated ==
    /\ \A i \in 1..Len(upLog) :
          (upLog[i].method = "googleUpload" /\ upLog[i].channel \in CHANNELS)
             => /\ upLog[i].result \in {"blob", "None"}
                /\ upLog[i].attempts >= 1
    /\ (upLog # <<>> /\ upPc = "idle") => upCur = None
    /\ upPc \in {"idle", "blob", "upload"}
    /\ \A i \in 1..Len(upLog) :
          (upLog[i].method = "googleUpload" /\ upLog[i].result = "blob")
             => FinalName(upLog[i].channel, "file.json") \in upObjects

\* a googleUpload to a registered channel failed after its retries and
\* returned None; the caller went on and its next googleUpload succeeded
C22_Witness ==
    /\ Len(upLog) >= 2
    /\ upLog[1].method = "googleUpload"
    /\ upLog[1].channel \in CHANNELS
    /\ upLog[1].result = "None"
    /\ upLog[1].attempts = MaxAttempts
    /\ upLog[2].method = "googleUpload"
    /\ upLog[2].result = "blob"

-----------------------------------------------------------------------------
(* Claims about the order of the steps of run, checked under SpecBG.       *)

\* C23: the end-of-day finalization runs only when the external day differs
\* from the tracked dayObs, and the steps of the cycle come in this order:
\* a catchup pass that called every routine for the tracked dayObs, then
\* sleep(endOfDayDelay), then runEndOfDay for that same dayObs, then the
\* advance of dayObs to the current day; dayObs changes nowhere else.
C23_FinalizationOrder ==
    /\ [][(bgPc' = "endOfDayDelay" /\ bgPc # "endOfDayDelay")
            => /\ bgPc = "afterCatchup"
               /\ ran = Components
               /\ hasDayRolledOver(dayObs)
               /\ dayObs' = dayObs]_vars
    /\ [][(bgPc' = "runEndOfDay" /\ bgPc # "runEndOfDay")
            => /\ bgPc = "endOfDayDelay"
               /\ bgNow' = bgNow + endOfDayDelay
               /\ bgNow' >= lastRun + endOfDayDelay
               /\ dayObs' = dayObs
               /\ finalized' = Append(finalized, dayObs)]_vars
    /\ [][dayObs' # dayObs
            => /\ bgPc \in EodPcs
               /\ bgPc' \notin EodPcs
               /\ finalized # <<>>
               /\ finalized[Len(finalized)] = dayObs
               /\ dayObs' = currentDayObs]_vars
    /\ [][finalized' # finalized => bgPc = "endOfDayDelay"]_vars
    /\ [](bgPc \in ({"endOfDayDelay"} \cup EodPcs) => hasDayRolledOver(dayObs))

\* the finalization of the first day has begun, endOfDayDelay after the
\* catchup pass that came before it, and dayObs still is that day
C23_Witness ==
    /\ bgPc = "allSkySleep"
    /\ finalized = <<FirstDayObs>>
    /\ dayObs = FirstDayObs
    /\ currentDayObs > FirstDayObs
    /\ bgNow = lastRun + endOfDayDelay

\* the last call of the last step of run that asked for a heartbeat
LastRequest == requested[Len(requested)]

-----------------------------------------------------------------------------
(* Further claims about the catchup pass, checked under SpecCatchup.       *)

\* catchupIsrRunner has been left and the pass goes on or has returned
IsrOver == bgPc \in {"catchupMonitor", "catchupMountTorques", "afterCatchup"}

\* the sequence numbers catchupIsrRunner found without a quickLookExp
Gaps == atEnum.upstream \ atEnum.present

\* the sequence numbers bestEffort.getExposure was called for
Attempted == {e.seq_num : e \in {x \in prodLog : x.routine = "catchupIsrRunner"}}

\* C24 as stated: every upstream sequence number without a quickLookExp at
\* the enumeration of the gaps gets a production attempt in that pass.
C24_EveryGapGetsAnAttempt ==
    IsrOver => Gaps \subseteq Attempted

\* what the code does: every gap gets its attempt unless an error other
\* than ConflictingDefinitionError left the loop; a unit the live path
\* produced first is attempted all the same and the loop goes on
C24_EveryGapGetsAnAttemptUnlessTheLoopRaised ==
    (IsrOver /\ "catchupIsrRunner" \notin raisedIn) => Gaps = Attempted

\* getExposure raised for a unit after one attempt had been made: the
\* routine was left, the pass went on, and a gap got no attempt
C24_Witness ==
    /\ IsrOver
    /\ ~bgDoRaise
    /\ "catchupIsrRunner" \in raisedIn
    /\ Attempted # {}
    /\ Gaps \ Attempted # {}

\* C25: getMissingQuickLookIds returns exactly one dataId for each upstream
\* sequence number of the tracked dayObs that has no quickLookExp and none
\* for the others, each with the tracked day_obs, the sequence number and
\* detector 0; upstream 1..5 with quickLookExps for 1, 2 and 4 gives the
\* dataIds of 3 and 5.
C25_MissingIdsAreExactlyTheGaps ==
    /\ bgPc = "isrSleep" =>
          /\ \A s \in Gaps :
                Cardinality({k \in 1..Len(missing) : missing[k].seq_num = s}) = 1
          /\ \A k \in 1..Len(missing) :
                /\ missing[k].seq_num \in Gaps
                /\ missing[k] = [day_obs |-> dayObs, seq_num |-> missing[k].seq_num,
                                 detector |-> 0]
          /\ Len(missing) = Cardinality(Gaps)
    /\ MissingDataIds(20240101, <<1, 2, 3, 4, 5>>, {1, 2, 4}) =
          <<[day_obs |-> 20240101, seq_num |-> 3, detector |-> 0],
            [day_obs |-> 20240101, seq_num |-> 5, detector |-> 0]>>

\* the gaps of a day with two exposures, of which one has its quickLookExp,
\* have just been enumerated
C25_Witness ==
    /\ bgPc = "isrSleep"
    /\ atEnum.upstream = {1, 2}
    /\ atEnum.present = {1}
    /\ missing = <<DataIdOf(dayObs, 2)>>

\* a step of run() that writes the markers of a cycle
BWWrites == bwLast'.written # bwLast.written /\ bwLast'.written # {}

\* a step of run() in which _deleteExistingData raised
BWPurgeRaised ==
    /\ bwCycles' = bwCycles + 1
    /\ "raw" \in bwLast'.found
    /\ bwLast'.written = {}

\* C26: in a ButlerWatcher cycle that found a new raw record the purge of
\* that record (_deleteExistingData) was done before the markers of the
\* cycle are written; a cycle whose purge raises writes no marker and leaves
\* lastWrittenIds as it was; files are removed, and a purge is recorded, only
\* in a cycle that has raw among its new records, and only files of that
\* raw record go.
C26_PurgeBeforeMarkers ==
    [][/\ (BWWrites /\ "raw" \in bwLast'.written)
             => /\ bwLast.purged = Some(found["raw"].id)
                /\ bwLast'.purged = bwLast.purged
                /\ shardedData' = shardedData
       /\ BWPurgeRaised
             => /\ dataIdFiles' = dataIdFiles
                /\ lastWrittenIds' = lastWrittenIds
                /\ bwPc' # "write"
       /\ (\/ shardedData \ shardedData' # {}
           \/ bwLast'.purged # None /\ bwLast'.purged # bwLast.purged)
             => /\ "raw" \in Found
                /\ "raw" \in bwLast'.found
                /\ shardedData \ shardedData' \subseteq
                      PurgeTargets(shardedData, Get(getLatestExpRecord("raw")))
                /\ dataIdFiles' = dataIdFiles]_vars

\* the markers of a cycle with a new raw record have been written after the
\* purge of that record, which removed a file
C26_Witness ==
    /\ "raw" \in bwLast.written
    /\ bwLast.purged # None
    /\ \E r \in Exposures :
          /\ r.id = Get(bwLast.purged)
          /\ r.id \in dataIdFiles["raw"]
          /\ lastWrittenIds["raw"] = Some(IntVal(r.id))
          /\ PurgeTargets(shardedData, r) = {}
    /\ shardedData # {}

\* C27: for each product, whatever the records of the other products,
\* _getLatestExpRecords gives the record with the latest timespan end among
\* the exposures that have a dataset of the product, and None when there is
\* no such exposure; a record with a larger exposure id or a larger sequence
\* number does not displace it.
C27_LatestByTimespanEnd ==
    \A product \in dataProducts :
       IF registry[product] = {}
       THEN getLatestExpRecord(product) = None
       ELSE /\ getLatestExpRecord(product) # None
            /\ Get(getLatestExpRecord(product)) \in registry[product]
            /\ \A q \in registry[product] :
                  q.timespanEnd <= Get(getLatestExpRecord(product)).timespanEnd

\* raw has two exposures and the later one, which is chosen, has the
\* smaller id and the smaller sequence number; quickLookExp exists for the
\* earlier one only, which is chosen for it
C27_Witness ==
    /\ bwPc = "loop"
    /\ Cardinality(registry["raw"]) >= 2
    /\ \E q \in registry["raw"] :
          /\ q.timespanEnd < Get(getLatestExpRecord("raw")).timespanEnd
          /\ q.id > Get(getLatestExpRecord("raw")).id
          /\ q.seq_num > Get(getLatestExpRecord("raw")).seq_num
          /\ getLatestExpRecord("quickLookExp") = Some(q)
    /\ "raw" \in bwLast.written
    /\ lastWrittenIds["raw"] = Some(IntVal(Get(getLatestExpRecord("raw")).id))

\* the exposure record in the marker file of exposure id m, as ButlerWatcher
\* wrote it
MarkerRecord(m) == ExpRecord(MaxExpId + 1 - m)

\* record a is of a later (day_obs, seq_num) pair than record b
LaterPair(a, b) ==
    \/ a.day_obs > b.day_obs
    \/ a.day_obs = b.day_obs /\ a.seq_num > b.seq_num

\* C28: the marker FileWatcher.getMostRecentExpRecord takes as the most
\* recent one is the maximum in the order of the (day_obs, seq_num) pairs of
\* the markers, whatever their exposure ids, and the comparison with the
\* previous exposure tells whether that pair is the previous one's.
C28_MostRecentByBucketAndSequence ==
    markers # {} =>
       /\ \A m \in markers \ {MostRecentId} :
             LaterPair(MarkerRecord(MostRecentId), MarkerRecord(m))
       /\ \A previous \in ExpIds :
             getMostRecentExpRecord(markers, Some(previous)) = None
                <=> /\ MarkerRecord(MostRecentId).day_obs =
                          MarkerRecord(previous).day_obs
                    /\ MarkerRecord(MostRecentId).seq_num =
                          MarkerRecord(previous).seq_num

\* what getMostRecentExpRecord does take: the maximum in the order of the
\* file names, which is total and transitive on the markers, and the test
\* with the previous exposure is on the id parsed from the name
C28_MostRecentByFileName ==
    /\ \A a, b \in ExpIds :
          a # b => (StrLess(Digits(a), Digits(b)) <=> ~StrLess(Digits(b), Digits(a)))
    /\ \A a, b, c \in ExpIds :
          StrLess(Digits(a), Digits(b)) /\ StrLess(Digits(b), Digits(c))
             => StrLess(Digits(a), Digits(c))
    /\ markers # {} =>
          /\ MostRecentId \in markers
          /\ \A m \in markers \ {MostRecentId} :
                StrLess(Digits(m), Digits(MostRecentId))
          /\ \A previous \in ExpIds :
                getMostRecentExpRecord(markers, Some(previous)) = None
                   <=> MostRecentId = previous

\* the callback has been given the marker that is first in file name order
\* while a marker of a later day is in the directory
C28_Witness ==
    /\ lastStep = "found"
    /\ Len(calls) >= 1
    /\ calls[Len(calls)].unit = MostRecentId
    /\ lastFound = Some(MostRecentId)
    /\ \E m \in markers :
          /\ MarkerRecord(m).day_obs > MarkerRecord(MostRecentId).day_obs
          /\ m < MostRecentId

\* every poll of the call so far found no dataset
NoneSeen == \A k \in 1..Len(wSeen) : ~wSeen[k]

\* C30: a call of _waitForDataProduct returns: it polls at most
\* int(maxTime // cadence) times and sleeps no longer than maxTime in all,
\* it returns the product at the first poll that finds the dataset, and
\* after int(maxTime // cadence) polls without the dataset it logs a warning
\* and returns None; it returns nothing else and does not raise.
C30_WaitTerminates ==
    /\ [](/\ Len(wSeen) <= wMaxTime \div waitCadence
          /\ wSlept <= wMaxTime
          /\ wSlept = waitCadence * wRetry
          /\ \A k \in 1..(Len(wSeen) - 1) : ~wSeen[k]
          /\ wPc \in {"loop", "sleep"} => wResult = "pending" /\ NoneSeen
          /\ wPc = "returned" =>
                \/ /\ wResult = "product"
                   /\ Len(wSeen) >= 1
                   /\ wSeen[Len(wSeen)]
                   /\ ~wWarned
                \/ /\ wResult = "None"
                   /\ Len(wSeen) = wMaxTime \div waitCadence
                   /\ NoneSeen
                   /\ wWarned)
    /\ (wPc \in {"loop", "sleep"}) ~> (wPc = "returned")

\* a call with a maxTime that is not a multiple of the cadence has returned
\* None after three polls, and the dataset landed after the last one
C30_Witness ==
    /\ wPc = "returned"
    /\ wResult = "None"
    /\ wMaxTime = 7
    /\ Len(wSeen) = 3
    /\ wSlept = 6
    /\ wExists

\* the day after a calendar day, as a dayObs
NextDayObs(d) ==
    IF DayOf(d) < DaysInMonth(YearOf(d), MonthOf(d)) THEN d + 1
    ELSE IF MonthOf(d) < 12 THEN YearOf(d) * 10000 + (MonthOf(d) + 1) * 100 + 1
    ELSE (YearOf(d) + 1) * 10000 + 101

\* C31: isDayObsContiguous(a, b) gives the same for (a, b) and (b, a) and is
\* true exactly when one of the two days is the day after the other; it is
\* true for 20220930 and 20221001 in both orders and false for 20221001 and
\* 20221005.
C31_ContiguousIsAdjacentDays ==
    /\ dyResult = isDayObsContiguous(dyB, dyA)
    /\ dyResult <=> (dyB = NextDayObs(dyA) \/ dyA = NextDayObs(dyB))
    /\ isDayObsContiguous(20220930, 20221001)
    /\ isDayObsContiguous(20221001, 20220930)
    /\ ~isDayObsContiguous(20221001, 20221005)

\* the call of the test with the next day in another month
C31_Witness ==
    /\ dyA = 20221001
    /\ dyB = 20220930
    /\ dyResult

\* the files of calculatedDataPath that belong to an exposure
FilesOf(files, expRecord) ==
    {f \in files : f.day_obs = expRecord.day_obs /\ f.seq_num = expRecord.seq_num}

\* a step of run() in which _deleteExistingData ran to its end
BWPurges == bwPc = "loop" /\ bwPc' = "write" /\ bwLast'.purged # None

\* the raw exposure whose marker run() wrote last, before this cycle
PreviousRaw == RecordOfId(Get(lastWrittenIds["raw"]).v)

\* C32 as stated: the purge for a new raw exposure removes the sharded files
\* of the previous exposure and leaves those of every other exposure,
\* the new one included, where they are.
C32_PurgeRemovesFilesOfPreviousUnit ==
    [][(BWPurges /\ lastWrittenIds["raw"] # None)
          => /\ FilesOf(shardedData', PreviousRaw) = {}
             /\ shardedData \ FilesOf(shardedData, PreviousRaw) \subseteq shardedData']_vars

\* C32, amended: the purge for a new raw exposure removes the sharded files
\* of that exposure itself (same day_obs and seq_num) and no other file, the
\* files of the previous exposure included, and a second purge right after
\* it changes nothing.
C32_PurgeRemovesFilesOfNewUnitOnly ==
    [][BWPurges
          => /\ FilesOf(shardedData', found'["raw"]) = {}
             /\ shardedData' = shardedData \ FilesOf(shardedData, found'["raw"])
             /\ bwLast'.removed = FilesOf(shardedData, found'["raw"])
             /\ deleteExistingData(shardedData', found'["raw"]) = shardedData'
             /\ PurgeTargets(shardedData', found'["raw"]) = {}]_vars

\* a purge for a new raw exposure has removed a file of that exposure and
\* left the file of the exposure published before it
C32_Witness ==
    /\ bwPc = "write"
    /\ bwLast.purged # None
    /\ bwLast.removed # {}
    /\ lastWrittenIds["raw"] # None
    /\ FilesOf(shardedData, PreviousRaw) # {}
    /\ PreviousRaw # found["raw"]

\* the id of the record last published for a product, None when there is none
PublishedId(product) ==
    IF lastWrittenIds[product] = None THEN None
    ELSE Some(Get(lastWrittenIds[product]).v)

\* the products whose latest record exists and has another id than the one
\* last published
NewProducts ==
    {product \in dataProducts :
        /\ getLatestExpRecord(product) # None
        /\ Some(Get(getLatestExpRecord(product)).id) # PublishedId(product)}

\* what a poll cycle that runs to its end does, according to C33
MarkersFollowNewIds ==
    /\ (bwPc = "loop" /\ bwCycles' = bwCycles + 1 /\ NewProducts = {})
          => /\ bwLast'.written = {}
             /\ dataIdFiles' = dataIdFiles
             /\ lastWrittenIds' = lastWrittenIds
    /\ (bwPc = "loop" /\ bwPc' = "write")
          => /\ DOMAIN found' = NewProducts
             /\ \A product \in NewProducts :
                   found'[product] = Get(getLatestExpRecord(product))
    /\ (bwPc = "write" /\ bwPc' = "loop")
          => /\ bwLast'.written = DOMAIN found
             /\ \A product \in DOMAIN found :
                   /\ Some(found[product].id) # PublishedId(product)
                   /\ found[product].id \in dataIdFiles'[product]
                   /\ lastWrittenIds'[product] = Some(IntVal(found[product].id))
             /\ \A product \in dataProducts \ DOMAIN found :
                   /\ dataIdFiles'[product] = dataIdFiles[product]
                   /\ lastWrittenIds'[product] = lastWrittenIds[product]

\* C33: in a poll cycle of ButlerWatcher.run that runs to its end a marker
\* is written for a product if and only if the latest record of the product
\* exists and its id differs from the id last published for the product;
\* after the write lastWrittenIds of the product is that id; for the other
\* products no marker is written and lastWrittenIds is unchanged.
C33_MarkerWrittenIffIdDiffers ==
    [][MarkersFollowNewIds]_vars

\* the same once lastWrittenIds holds ids: ids this run wrote, or nothing
C33_MarkerWrittenIffIdDiffersOnceIdsAreHeld ==
    [][(\A product \in dataProducts :
           \/ lastWrittenIds[product] = None
           \/ Get(lastWrittenIds[product]).type = "int")
          => MarkersFollowNewIds]_vars

\* the first cycle of a run that started on the marker of the latest raw
\* exposure has written that marker again
C33_Witness ==
    /\ bwCycles = 1
    /\ bwPc = "loop"
    /\ "raw" \in bwLast.written
    /\ coldStart["raw"] # None
    /\ lastWrittenIds["raw"] = Some(IntVal(Get(coldStart["raw"])))
    /\ Get(getLatestExpRecord("raw")).id = Get(coldStart["raw"])

\* C34: run enters runCatchup only when at least catchupPeriod has passed
\* since the previous pass returned, or since run started for the first
\* pass; while less has passed an iteration sleeps loopSleep; and every
\* iteration that ends without an error ends with a plain beat() at that
\* time.
C34_CatchupEveryPeriod ==
    [][/\ bgPasses' = bgPasses + 1
             => /\ bgPc = "loop"
                /\ bgNow - passEnd >= catchupPeriod
                /\ bgPasses = 0 => passEnd = StartTime
       /\ (bgPc = "loop" /\ bgPc' = "loop" /\ bgNow' # bgNow)
             => /\ bgNow - passEnd < catchupPeriod
                /\ bgNow' = bgNow + loopSleep
                /\ bgPasses' = bgPasses
                /\ requested' = <<BeatRequest(bgNow', None)>>
       /\ (bgPc' = "loop" /\ (bgPc # "loop" \/ bgNow' # bgNow))
             => /\ requested' # <<>>
                /\ requested'[Len(requested')] = BeatRequest(bgNow', None)
       /\ passEnd' # passEnd => bgPc = "afterCatchup" /\ passEnd' = bgNow]_vars

\* the second pass begins, catchupPeriod after the first one returned, the
\* iteration before it having slept loopSleep and asked for a heartbeat
C34_Witness ==
    /\ bgPasses = 2
    /\ bgPc = Components[1]
    /\ passEnd > StartTime
    /\ bgNow = passEnd + catchupPeriod
    /\ requested = <<BeatRequest(bgNow, None)>>

\* two dataIds are of the same unit: they have the three keys and agree on
\* them
SameUnit(d, e) ==
    /\ MinimalKeys \subseteq DOMAIN d
    /\ MinimalKeys \subseteq DOMAIN e
    /\ \A key \in MinimalKeys : d[key] = e[key]

\* C35: for a dataId that has day_obs, seq_num and detector, whatever else
\* it has, _makeMinimalDataId returns the dict of exactly these three keys
\* with the values of the dataId; every dataId of the same unit gives the
\* same dict, and so does the dict itself; a dataId that lacks one of the
\* three keys raises ValueError.
C35_MinimalDataIdIsTheIdentity ==
    IF MinimalKeys \subseteq DOMAIN mnDataId
    THEN /\ mnResult.raised = ""
         /\ DOMAIN mnResult.value = MinimalKeys
         /\ \A key \in MinimalKeys : mnResult.value[key] = mnDataId[key]
         /\ makeMinimalDataId(mnResult.value) = mnResult
         /\ \A other \in DataIds :
               SameUnit(mnDataId, other) => makeMinimalDataId(other) = mnResult
         /\ \A other \in DataIds :
               (MinimalKeys \subseteq DOMAIN other /\ ~SameUnit(mnDataId, other))
                  => makeMinimalDataId(other) # mnResult
    ELSE mnResult = Raised("ValueError")

\* a dataId with the three keys and two more has been minimised
C35_Witness ==
    /\ DOMAIN mnDataId = DataIdKeys
    /\ mnDataId["seq_num"] = 2
    /\ mnResult = Returned([day_obs |-> mnDataId["day_obs"], seq_num |-> 2,
                            detector |-> mnDataId["detector"]])

\* the step is one of catchupMetadata: the routine is under way and its
\* position, its list, its log or its shards change
MetadataCatchupStep ==
    /\ bgPc \in PcsOf("catchupMetadata")
    /\ <<bgPc, missing, prodLog, ran, raisedIn, mdShards>>' #
       <<bgPc, missing, prodLog, ran, raisedIn, mdShards>>

\* the shard of sequence number s has been tried by catchupMetadata
ShardTried(s) ==
    \E entry \in prodLog : entry.routine = "catchupMetadata" /\ entry.seq_num = s

\* catchupMetadata has returned without an error leaving it
MetadataCatchupReturned ==
    /\ bgPc = AfterComponent(1)
    /\ "catchupMetadata" \notin raisedIn

\* C36: a step of catchupMetadata leaves every sidecar file and the uploads
\* of the metadata channel as they are and removes no shard, so that only
\* the live path writes and uploads the sidecar files; and when the routine
\* has returned, the shard of every sequence number that was missing at the
\* enumeration has been tried, also after a shard that failed to be
\* written.
C36_CatchupMetadataOnlyWritesShards ==
    /\ [][MetadataCatchupStep =>
             /\ sidecar' = sidecar
             /\ mdUploads' = mdUploads
             /\ mdShards \subseteq mdShards']_vars
    /\ [](mdUploads \subseteq {"live"})
    /\ [](MetadataCatchupReturned =>
             \A s \in atEnum.upstream \ atEnum.present : ShardTried(s))

\* catchupMetadata has returned from a day with two missing rows: the shard
\* of the first failed to be written, the shard of the second is there, and
\* the sidecar file has the rows it had at the enumeration
C36_Witness ==
    /\ MetadataCatchupReturned
    /\ \E s, t \in atEnum.upstream \ atEnum.present :
          /\ s < t
          /\ ShardTried(s)
          /\ [day_obs |-> dayObs, seq_num |-> s] \notin mdShards
          /\ [day_obs |-> dayObs, seq_num |-> t] \in mdShards
    /\ sidecar[dayObs] = Some(atEnum.present)

\* the sequence numbers whose shard catchupMetadata has tried to write
ShardsTried == {s \in MetadataSeqNums : ShardTried(s)}

\* the sequence numbers of the tracked day that have a shard
ShardsWritten == {shard.seq_num : shard \in {m \in mdShards : m.day_obs = dayObs}}

\* C39: a catchupMetadata that finds no sidecar file for the tracked day
\* returns at once, with no shard tried or written, whatever the upstream
\* sequence numbers are; one that finds the file tries the shards of
\* exactly the upstream sequence numbers that were not keys of the file
\* when it was read, and no shard of another sequence number is written.
C39_ShardsExactlyForRowsNotInTheFile ==
    /\ [][(bgPc = "catchupMetadata" /\ sidecar[dayObs] = None /\ bgPc' # bgPc)
             => /\ bgPc' \in {AfterComponent(1), "crashed"}
                /\ mdShards' = mdShards
                /\ prodLog' = prodLog]_vars
    /\ [](MetadataCatchupReturned =>
             /\ ShardsTried = atEnum.upstream \ atEnum.present
             /\ ShardsWritten \subseteq ShardsTried)
    /\ [](bgPc \in PcsOf("catchupMetadata") =>
             /\ ShardsTried \subseteq atEnum.upstream \ atEnum.present
             /\ ShardsWritten \subseteq ShardsTried)

\* catchupMetadata has returned from a day of three exposures of which one
\* was a key of the sidecar file: the shards of the other two are written
C39_Witness ==
    /\ MetadataCatchupReturned
    /\ Cardinality(atEnum.upstream) = 3
    /\ Cardinality(atEnum.present) = 1
    /\ ShardsWritten = atEnum.upstream \ atEnum.present

\* catchupMetadata has returned from a day of exposures without a sidecar
\* file, and no shard is written
C39_WitnessNoFile ==
    /\ MetadataCatchupReturned
    /\ sidecar[dayObs] = None
    /\ Cardinality(seqNums[dayObs]) >= 2
    /\ ran = <<"catchupMetadata">>
    /\ mdShards = {}

\* the last invocation of the callback raised, in a watcher that goes on
LastCallRaised ==
    /\ ~doRaise
    /\ Len(calls) >= 1
    /\ calls[Len(calls)].result = "raised"

\* C37: while the callback runs, lastFound already is the unit it was given;
\* with doRaise = False, after the callback raised for a unit no step
\* invokes the callback while that unit is the most recent marker, the
\* cycles that poll only idle; and the step in which the callback raises
\* attempts no heartbeat, as the step that called it did not.
C37_RaisedUnitIsNotRetried ==
    /\ [](fwPc = "callback" =>
             /\ Len(calls) >= 1
             /\ lastFound = Some(calls[Len(calls)].unit))
    /\ [][(LastCallRaised /\ markers # {} /\ MostRecentId = calls[Len(calls)].unit)
             => /\ calls' = calls
                /\ FWStep => lastStep' = "idleSame"]_vars
    /\ [][(fwPc = "callback" /\ lastStep' = "raised")
             => /\ heartbeater' = heartbeater
                /\ lastBeat' = "none"
                /\ lastStep = "found"
                /\ lastBeat = "none"]_vars

\* the callback raised for a unit, the watcher went on, and a later cycle
\* found the same unit as the most recent marker and called nothing
C37_Witness ==
    /\ LastCallRaised
    /\ lastStep = "idleSame"
    /\ markers # {}
    /\ MostRecentId = calls[Len(calls)].unit
    /\ lastFound = Some(MostRecentId)
    /\ heartbeater # None
    /\ lastBeat # "none"

\* the marker of unit u is the most recent one
MostRecentIs(u) == IF markers = {} THEN FALSE ELSE MostRecentId = u

\* the marker of unit u is the most recent one and the run loop has not
\* taken it up
NewMostRecent(u) ==
    /\ fwPc # "crashed"
    /\ MostRecentIs(u)
    /\ lastFound # Some(u)

\* the callback has been invoked for unit u, as the last unit found
InvokedFor(u) ==
    /\ lastFound = Some(u)
    /\ Len(calls) >= 1
    /\ calls[Len(calls)].unit = u

\* C38: in a FileWatcher with doRaise = False whose poll and callbacks go
\* on, a marker that is the most recent one and is not the unit last found
\* leads to the callback being invoked for it, unless another marker
\* becomes the most recent one before.
C38_NewMostRecentMarkerIsProcessed ==
    \A u \in ExpIds :
        NewMostRecent(u) ~> (InvokedFor(u) \/ ~MostRecentIs(u))

\* the callback has been invoked for a marker that became the most recent
\* one after the callback of an earlier unit raised
C38_Witness ==
    /\ ~doRaise
    /\ Len(calls) >= 2
    /\ calls[Len(calls) - 1].result = "raised"
    /\ markers # {}
    /\ InvokedFor(MostRecentId)
    /\ fwPc = "callback"

\* the shards of dayObs dObs that the pass of merger m has listed and has
\* no longer in its work list, in the order of the pass
ProcessedFor(m, dObs) ==
    SortedSeq({i \in listed[m] \ ToProcess(m) : DayObsOfFilename(i) = dObs})

\* the content of a main file after the shards of a sequence have been
\* merged into it one after the other
RECURSIVE MergeAll(_, _)
MergeAll(d, shards) ==
    IF shards = <<>> THEN d
    ELSE MergeAll(MergeShard(d, ShardContent(Head(shards))), Tail(shards))

\* the main file of dObs as the shards processed by the pass of merger m
\* make it, from what it was when the pass listed the shards
MergedSoFar(m, dObs) ==
    LET start == IF mainAtList[m][dObs] = None THEN EmptyDict
                 ELSE Get(mainAtList[m][dObs])
        shards == ProcessedFor(m, dObs)
    IN IF shards = <<>> THEN mainAtList[m][dObs]
       ELSE Some(MergeAll(start, shards))

\* C40: when the load of a shard raises in a pass of the only merger, the
\* step removes no shard file and writes no main file: the shard that
\* failed and the shards sorted after it are in the directory as they were,
\* and every main file is what the shards processed before it in this pass
\* made of it.
C40_FailedShardLoadLeavesShardAndMainFile ==
    [][\A m \in Mergers :
          (mPc[m] = "readShard" /\ lastPass'[m] = "shardRaised") =>
             /\ shardsDir' = shardsDir
             /\ mainFiles' = mainFiles
             /\ ToProcess(m) \subseteq shardsDir'
             /\ mRemoved[m] = listed[m] \ ToProcess(m)
             /\ \A dObs \in DayObss : mainFiles'[dObs] = MergedSoFar(m, dObs)]_vars

\* the load of the second shard of a pass over three shards has raised: the
\* first shard is merged and removed, the other two are in the directory
C40_Witness ==
    /\ mPc["metadataServer"] = "idle"
    /\ lastPass["metadataServer"] = "shardRaised"
    /\ listed["metadataServer"] = {1, 2, 3}
    /\ mRemoved["metadataServer"] = {1}
    /\ {2, 3} \subseteq shardsDir
    /\ mainFiles[ShardDayObs(1)] = Some(ShardContent(1))

=============================================================================
